---- MODULE Spec2Model ----
(***************************************************************************)
(* power-options: the resolver index (construction), the binder (bind) and *)
(* the evaluator (evaluate), as a state machine.                           *)
(*                                                                         *)
(*   construct : new CommandLineResolver(settings), one registration per   *)
(*               step (addOption / _addCommand / the synthetic help).      *)
(*   ready     : the resolver is built; parse(args) may be called.         *)
(*   named, positional, free : the three loops of bind().                  *)
(*   evaluate, finish : the loop of evaluate() and its tail.               *)
(*   done      : the ParsedCommandLine has been returned.                  *)
(*   threw     : the constructor threw a configuration error, or evaluate  *)
(*               threw a TypeError.                                        *)
(*                                                                         *)
(* The source holds two revisions of evaluate(): the earlier one is        *)
(* src/src/lib/evaluator.ts:7-191, the later one (it adds commandPath and  *)
(* `handled`) is src/src/tests/binder.ts:107-330.  `revision` says which   *)
(* of the two the program was built with.                                  *)
(***************************************************************************)
EXTENDS Integers, Sequences, FiniteSets, TLC

VARIABLES settings, revision, pc, step, index, thrown, commandLine, argv, parsedArguments, unboundArguments, freeArguments, position, usedPositions, boundArguments, boundCommand, groups, resolver, bindCommands, restOption, evalIndex, ok, result, parses, firstParse, auto, callbacks, context, container, handled, invoked, output, exits

vars == <<settings, revision, pc, step, index, thrown, commandLine, argv, parsedArguments, unboundArguments, freeArguments, position, usedPositions, boundArguments, boundCommand, groups, resolver, bindCommands, restOption, evalIndex, ok, result, parses, firstParse, auto, callbacks, context, container, handled, invoked, output, exits>>

bindVars == <<parsedArguments, unboundArguments, freeArguments, position, usedPositions, boundArguments, boundCommand, groups, resolver, bindCommands, restOption>>

evalVars == <<evalIndex, ok, result>>

\* What a CommandLine shared between parses carries from one to the next.
shareVars == <<parses, firstParse>>

\* CommandLine.auto, the exec callbacks of the settings, the context the
\* caller hands to parseAndExecute, the container flag of the settings,
\* result.handled, and what the
\* callbacks, the streams and process.exit have seen.
execVars == <<auto, callbacks, context, container, handled, invoked, output, exits>>

(***************************************************************************)
(* Bounds.                                                                 *)
(***************************************************************************)
\* Longest argument list handed to parse().
MaxArgs == 3

\* The most parses one CommandLine serves after its first.
MaxParses == 2

\* The longest command line of a parse made between two parses of the
\* same command line.
MaxBetween == 0

\* Longest argument list handed to parseAndExecute().
MaxExecArgs == 2

(***************************************************************************)
(* Values.  A JavaScript value is a tagged record, so that a string, a     *)
(* number, a boolean, an array and undefined are never confused.           *)
(***************************************************************************)
Str(s) == [t |-> "string", v |-> s]

Num(n) == [t |-> "number", v |-> n]

Bool(b) == [t |-> "boolean", v |-> b]

Arr(items) == [t |-> "array", v |-> items]

Undefined == [t |-> "undefined", v |-> ""]

\* `position?: number` left undefined.
NoPosition == -1

(***************************************************************************)
(* Strings: String.prototype.toUpperCase, parseInt and the binder's        *)
(* booleanPattern over the strings that occur in the model.                *)
(***************************************************************************)
UpperTable == ("a" :> "A") @@ ("b" :> "B") @@ ("c" :> "C") @@ ("d" :> "D") @@ ("dc" :> "DC") @@ ("e" :> "E") @@ ("f" :> "F") @@ ("h" :> "H") @@ ("m" :> "M") @@ ("n" :> "N") @@ ("q" :> "Q") @@ ("r" :> "R") @@ ("s" :> "S") @@ ("v" :> "V") @@ ("w" :> "W") @@ ("x" :> "X") @@ ("y" :> "Y") @@ ("z" :> "Z") @@ ("ga" :> "GA") @@ ("gab" :> "GAB") @@ ("gbc" :> "GBC") @@ ("gc" :> "GC") @@ ("px" :> "PX") @@ ("py" :> "PY") @@ ("help" :> "HELP") @@ ("nope" :> "NOPE") @@ ("foo" :> "FOO") @@ ("no" :> "NO") @@ ("maybe" :> "MAYBE") @@ ("e,f" :> "E,F") @@ ("yes" :> "YES") @@ ("d-c" :> "D-C") @@ ("bee" :> "BEE") @@ ("k" :> "K") @@ ("p" :> "P") @@ ("u" :> "U") @@ ("usage" :> "USAGE") @@ ("host" :> "HOST") @@ ("true" :> "TRUE") @@ ("false" :> "FALSE")

toUpperCase(s) == IF s \in DOMAIN UpperTable THEN UpperTable[s] ELSE s

\* name.trim().replace(/_/g, "-") over the names that occur in the model.
TrimTable == (" b " :> "b") @@ (" B " :> "B") @@ ("d_c" :> "d-c") @@ (" ? " :> "?")

trimmed(name) == IF name \in DOMAIN TrimTable THEN TrimTable[name] ELSE name

normalizeName(name, caseInsensitive) == IF caseInsensitive THEN toUpperCase(trimmed(name)) ELSE trimmed(name)

\* alias.length === 1, over the names that occur in the model.
OneCharacter(name) == name \in {"a", "b", "c", "d", "e", "f", "h", "k", "m", "n", "p", "q", "r", "s", "u", "v", "w", "x", "y", "z", "?", "B"}

\* parseInt(item): the leading integer of the text, NaN when there is none.
IntTable == ("1" :> 1) @@ ("2" :> 2) @@ ("1,2" :> 1) @@ ("0" :> 0)

isNaN(item) == item \notin DOMAIN IntTable

parseInt(item) == IntTable[item]

\* booleanPattern = /^(?:(-?1|t(rue)?|y(es)?)|(0|f(alse)?|n(o)?))$/i
booleanTrue(item) == toUpperCase(item) \in {"1", "-1", "T", "TRUE", "Y", "YES"}

booleanFalse(item) == toUpperCase(item) \in {"0", "F", "FALSE", "N", "NO"}

(***************************************************************************)
(* Options and settings.                                                   *)
(***************************************************************************)
Scopes == {"root", "z", "w", "v", "l"}

\* A command's parent scope (Command.parentCommand / Resolver._parent).
Parent(scope) == IF scope = "v" THEN "w" ELSE "root"

\* A type taken to be boolean whenever none is declared.
inferTypeBoolean(type, pos, multiple, flags) == IF type = "" THEN "boolean" ELSE type

\* inferType(commandLineOption); "" stands for a declaration without a type.
inferType(type, pos, multiple, flags) ==
    IF type = ""
    THEN IF "passthru" \in flags \/ "rest" \in flags \/ multiple # "false" \/ "required" \in flags \/ pos # NoPosition
         THEN "string" ELSE "boolean"
    ELSE type

\* new Option(key, commandLineOption, command, optionSet); `declared` keeps
\* what the declaration said before the constructor's defaults.
Option(key, scope, type, shortName, pos, group, multiple, flags) ==
    [ key |-> key, scope |-> scope, type |-> inferType(type, pos, multiple, flags),
      declared |-> [type |-> type, multiple |-> multiple # "false"],
      longName |-> normalizeName(key, FALSE), shortName |-> shortName, aliases |-> <<>>,
      position |-> pos, groups |-> group,
      multiple |-> IF multiple # "false" THEN multiple
                   ELSE IF "rest" \in flags \/ "passthru" \in flags THEN "true" ELSE "false",
      single |-> "single" \in flags, rest |-> "rest" \in flags,
      passthru |-> "passthru" \in flags, help |-> "help" \in flags,
      required |-> "required" \in flags,
      hasValidator |-> FALSE, in |-> <<>>, validateThrows |-> FALSE,
      hasCustomError |-> FALSE, customError |-> [kind |-> "", about |-> 0, option |-> "", help |-> FALSE, status |-> 0],
      hasDefaultValue |-> FALSE, defaultValue |-> Undefined,
      aliasFor |-> <<>> ]

NoOption == Option("", "root", "boolean", "", NoPosition, <<>>, "false", {})

\* An `aliasFor` on an option: the command-line arguments the option is a
\* shortcut for, kept as declared.
WithAliasFor(o, arguments) == [o EXCEPT !.aliasFor = arguments]

\* An `alias` list on an option.
WithAlias(o, aliases) == [o EXCEPT !.aliases = [i \in 1..Len(aliases) |-> normalizeName(aliases[i], FALSE)]]

\* A `longName` on an option.
WithLongName(o, longName) == [o EXCEPT !.longName = normalizeName(longName, FALSE)]

\* { type: "boolean", shortName: "h", longName: "help", alias: ["?"], help: true }
HelpOption == WithAlias(Option("help", "root", "boolean", "h", NoPosition, <<>>, "false", {"help"}), <<"?">>)

Settings == {"basic", "groups", "commands", "rest", "samepos", "overlap", "nogroup", "switches", "required", "defaults", "hooks", "positions"}

\* Configurations that exercise the resolver tree: passthru and rest
\* slots, shadowing between scopes, aliases, the help option, type
\* inference.
TreeSettings == {"passthru", "passcmd", "shadow", "chain", "twopass", "tworest", "aliases", "dupalias", "dupshort", "duplong", "helpdecl", "cmdhelp", "helpclash", "empty", "infer"}

\* A configuration with commands for parseAndExecute: the command z takes
\* the exec callback of `callbacks.command`, the others have none.
ExecSettings == {"exec"}

\* Configurations whose options with a default or marked required belong
\* to groups: without a default group, and with the default group "*".
GroupSettings == {"grouped", "anygroup"}

\* Configurations that declare options and commands as shortcuts for
\* command-line arguments (aliasFor).
AliasSettings == {"aliasopt", "aliascmd"}

\* The two revisions of evaluate() the source holds.
Revisions == {"earlier", "later"}

\* An `in` list on an option: Option.hasValidator and Option._in.
WithIn(o, list) == [o EXCEPT !.hasValidator = TRUE, !.in = list]

\* A `validate` callback that throws.
WithThrowingValidate(o) == [o EXCEPT !.hasValidator = TRUE, !.validateThrows = TRUE]

\* An `error` definition { message, help, status } on an option.
WithError(o, help, status) ==
    [o EXCEPT !.hasCustomError = TRUE, !.customError = [kind |-> "custom", about |-> 0, option |-> "", help |-> help, status |-> status]]

\* A `defaultValue` on an option.
WithDefaultValue(o, value) == [o EXCEPT !.hasDefaultValue = TRUE, !.defaultValue = value]

\* A `defaultValue` callback that throws.
Throws == [t |-> "throws", v |-> ""]

\* settings.defaultGroup
DefaultGroupOf(s) == IF s = "groups" THEN "c" ELSE IF s = "anygroup" THEN "*" ELSE ""

\* settings.options and each command's options, in registration order.
OptionsOf(s) ==
    CASE s = "basic" ->
           << Option("a", "root", "boolean", "a", NoPosition, <<>>, "false", {}),
              Option("b", "root", "string", "", NoPosition, <<>>, "false", {}),
              Option("c", "root", "number", "", NoPosition, <<>>, "false", {}),
              Option("d", "root", "string", "", NoPosition, <<>>, "true", {}),
              Option("dc", "root", "string", "", NoPosition, <<>>, "comma-separated", {}),
              Option("x", "root", "string", "", 0, <<>>, "false", {}) >>
      [] s = "groups" ->
           << Option("gab", "root", "boolean", "", NoPosition, <<"a", "b">>, "false", {}),
              Option("gbc", "root", "boolean", "", NoPosition, <<"b", "c">>, "false", {}),
              Option("gc", "root", "boolean", "", NoPosition, <<"c">>, "false", {}),
              Option("x", "root", "string", "", 0, <<"c", "a">>, "false", {}) >>
      [] s = "commands" ->
           << Option("a", "root", "boolean", "a", NoPosition, <<>>, "false", {}),
              Option("b", "root", "string", "", NoPosition, <<>>, "false", {}),
              Option("x", "root", "string", "", 0, <<>>, "false", {}),
              Option("q", "w", "boolean", "q", NoPosition, <<>>, "false", {}) >>
      [] s = "rest" ->
           << Option("x", "root", "string", "", 0, <<>>, "false", {}),
              Option("s", "root", "string", "", NoPosition, <<>>, "false", {"single"}),
              Option("r", "root", "string", "", NoPosition, <<>>, "false", {"rest"}) >>
      [] s \in GroupSettings ->
           << Option("ga", "root", "boolean", "", NoPosition, <<"a">>, "false", {}),
              Option("gb", "root", "boolean", "", NoPosition, <<"b">>, "false", {}),
              WithDefaultValue(Option("da", "root", "string", "", NoPosition, <<"a">>, "false", {}), Str("e")),
              Option("rb", "root", "string", "", NoPosition, <<"b">>, "false", {"required"}),
              WithDefaultValue(Option("dn", "root", "string", "", NoPosition, <<>>, "false", {}), Str("f")),
              Option("x", "root", "string", "", 0, <<>>, "false", {}) >>
      [] s = "aliasopt" ->
           << Option("a", "root", "boolean", "a", NoPosition, <<>>, "false", {}),
              Option("b", "root", "string", "", NoPosition, <<>>, "false", {}),
              Option("x", "root", "string", "", 0, <<>>, "false", {}),
              WithAliasFor(Option("y", "root", "string", "", 1, <<>>, "false", {}), <<"-a", "e">>),
              WithAliasFor(Option("k", "root", "boolean", "", NoPosition, <<>>, "false", {}), <<"-a", "--b=e", "e">>),
              WithAliasFor(Option("l", "root", "boolean", "", NoPosition, <<>>, "false", {}), <<"--l">>) >>
      [] s = "aliascmd" ->
           << Option("a", "root", "boolean", "a", NoPosition, <<>>, "false", {}),
              Option("x", "root", "string", "", 0, <<>>, "false", {}) >>
      [] s = "positions" ->
           << Option("x", "root", "string", "", 0, <<>>, "false", {}),
              Option("y", "root", "string", "", 2, <<>>, "false", {}) >>
      [] s = "samepos" ->
           << Option("ga", "root", "boolean", "", NoPosition, <<"a">>, "false", {}),
              Option("px", "root", "string", "", 0, <<"a">>, "false", {}),
              Option("py", "root", "string", "", 0, <<"b">>, "false", {}) >>
      [] s = "overlap" ->
           << Option("px", "root", "string", "", 0, <<"a", "b">>, "false", {}),
              Option("py", "root", "string", "", 0, <<"b">>, "false", {}) >>
      [] s = "nogroup" ->
           << Option("px", "root", "string", "", 0, <<"a">>, "false", {}),
              Option("py", "root", "string", "", 0, <<>>, "false", {}) >>
      [] s = "switches" ->
           << Option("a", "root", "boolean", "a", NoPosition, <<>>, "false", {}) >>
      [] s = "required" ->
           << Option("b", "root", "string", "", NoPosition, <<>>, "false", {}),
              Option("n", "root", "string", "", NoPosition, <<>>, "false", {"required"}),
              Option("m", "root", "number", "", NoPosition, <<>>, "false", {"required"}) >>
      [] s = "defaults" ->
           << WithDefaultValue(Option("b", "root", "string", "", NoPosition, <<>>, "false", {}), Str("c")),
              WithDefaultValue(Option("c", "root", "number", "", NoPosition, <<>>, "false", {}), Arr(<<Num(1), Num(2)>>)),
              WithDefaultValue(Option("d", "root", "string", "", NoPosition, <<>>, "true", {}), Str("e")),
              WithDefaultValue(Option("dc", "root", "string", "", NoPosition, <<>>, "comma-separated", {}), Arr(<<Str("e"), Str("f")>>)),
              WithDefaultValue(Option("n", "root", "string", "", NoPosition, <<>>, "false", {"required"}), Str("e")) >>
      [] s = "hooks" ->
           << WithError(WithIn(Option("b", "root", "string", "", NoPosition, <<>>, "false", {}), <<Str("e")>>), FALSE, 2),
              WithError(Option("s", "root", "string", "", NoPosition, <<>>, "false", {"single"}), FALSE, 2),
              WithThrowingValidate(Option("c", "root", "number", "", NoPosition, <<>>, "false", {})),
              WithDefaultValue(Option("d", "root", "string", "", NoPosition, <<>>, "true", {}), Throws),
              WithDefaultValue(Option("m", "root", "number", "", NoPosition, <<>>, "false", {}), Num(1)) >>

\* settings.options of the configurations in TreeSettings.
TreeOptionsOf(s) ==
    CASE s = "passthru" ->
           << Option("a", "root", "boolean", "a", NoPosition, <<>>, "false", {}),
              Option("b", "root", "string", "", NoPosition, <<>>, "false", {}),
              Option("x", "root", "string", "", 0, <<>>, "false", {}),
              Option("p", "root", "", "", NoPosition, <<>>, "false", {"passthru"}) >>
      [] s = "passcmd" ->
           << Option("a", "root", "boolean", "a", NoPosition, <<>>, "false", {}),
              Option("p", "root", "", "", NoPosition, <<>>, "false", {"passthru"}) >>
      [] s = "shadow" ->
           << Option("a", "root", "boolean", "a", NoPosition, <<>>, "false", {}),
              Option("b", "root", "string", "", NoPosition, <<>>, "false", {}),
              Option("c", "root", "number", "", NoPosition, <<>>, "false", {}),
              Option("x", "root", "string", "", 0, <<>>, "false", {}),
              Option("b", "w", "number", "", NoPosition, <<>>, "false", {}),
              Option("q", "w", "boolean", "a", NoPosition, <<>>, "false", {}),
              Option("y", "w", "string", "", 0, <<>>, "false", {}) >>
      [] s = "chain" ->
           << Option("p", "root", "", "", NoPosition, <<>>, "false", {"passthru"}),
              Option("r", "root", "", "", NoPosition, <<>>, "false", {"rest"}),
              Option("q", "w", "", "", NoPosition, <<>>, "false", {"passthru"}),
              Option("s", "w", "", "", NoPosition, <<>>, "false", {"rest"}) >>
      [] s = "twopass" ->
           << Option("p", "root", "", "", NoPosition, <<>>, "false", {"passthru"}),
              Option("q", "root", "", "", NoPosition, <<>>, "false", {"passthru"}) >>
      [] s = "tworest" ->
           << Option("r", "root", "", "", NoPosition, <<>>, "false", {"rest"}),
              Option("s", "root", "", "", NoPosition, <<>>, "false", {"rest"}) >>
      [] s = "aliases" ->
           << WithAlias(Option("a", "root", "boolean", "a", NoPosition, <<>>, "false", {}), <<"d_c", "k">>),
              WithAlias(Option("b", "root", "string", "", NoPosition, <<>>, "false", {}), <<"bee", "B">>),
              WithLongName(Option("c", "root", "number", "c", NoPosition, <<>>, "false", {}), "k") >>
      [] s = "dupalias" ->
           << Option("d-c", "root", "boolean", "", NoPosition, <<>>, "false", {}),
              WithAlias(Option("b", "root", "string", "", NoPosition, <<>>, "false", {}), <<"d_c">>) >>
      [] s = "dupshort" ->
           << Option("a", "root", "boolean", "a", NoPosition, <<>>, "false", {}),
              WithAlias(Option("b", "root", "string", "", NoPosition, <<>>, "false", {}), <<"a">>) >>
      [] s = "duplong" ->
           << Option("b", "root", "string", "", NoPosition, <<>>, "false", {}),
              WithLongName(Option("c", "root", "number", "", NoPosition, <<>>, "false", {}), " B ") >>
      [] s = "helpdecl" ->
           << Option("usage", "root", "boolean", "u", NoPosition, <<>>, "false", {"help"}),
              Option("b", "root", "string", "", NoPosition, <<>>, "false", {}) >>
      [] s = "cmdhelp" ->
           << Option("b", "root", "string", "", NoPosition, <<>>, "false", {}),
              Option("usage", "w", "boolean", "u", NoPosition, <<>>, "false", {"help"}) >>
      [] s = "helpclash" ->
           << Option("host", "root", "string", "h", NoPosition, <<>>, "false", {}) >>
      [] s = "infer" ->
           << Option("n", "root", "", "", NoPosition, <<>>, "false", {"required"}),
              Option("x", "root", "", "", 0, <<>>, "false", {}),
              Option("a", "root", "", "a", NoPosition, <<>>, "false", {}),
              Option("m", "root", "number", "", NoPosition, <<>>, "false", {"required"}),
              Option("c", "root", "boolean", "", NoPosition, <<>>, "false", {}),
              Option("b", "root", "string", "", NoPosition, <<>>, "false", {}),
              Option("d", "root", "", "", NoPosition, <<>>, "true", {}),
              Option("p", "root", "", "", NoPosition, <<>>, "false", {"passthru"}),
              Option("r", "root", "", "", NoPosition, <<>>, "false", {"rest"}) >>
      [] OTHER -> <<>>

\* settings.commands, flattened in construction order: a command is
\* registered in its parent after its own options and sub-commands.
CommandsOf(s) ==
    IF s \in {"commands", "shadow", "chain", "cmdhelp", "exec"} THEN <<"z", "v", "w">>
    ELSE IF s = "passcmd" THEN <<"z">>
    ELSE IF s = "aliascmd" THEN <<"z", "w", "l">>
    ELSE <<>>

\* Command.aliasFor.getUnparsedArguments(): the command-line arguments a
\* command is a shortcut for, <<>> for a command that is none.
getUnparsedArguments(s, command) ==
    IF s = "aliascmd" /\ command = "w" THEN <<"z", "-a">>
    ELSE IF s = "aliascmd" /\ command = "l" THEN <<"l">>
    ELSE <<>>

\* The declared options of a configuration.
DeclaredOptions(s) ==
    IF s \in TreeSettings THEN TreeOptionsOf(s)
    ELSE IF s \in ExecSettings THEN <<Option("a", "root", "boolean", "a", NoPosition, <<>>, "false", {})>>
    ELSE OptionsOf(s)

\* The registrations the constructor performs, in order.
BuildSteps(s) ==
    [i \in 1..Len(DeclaredOptions(s)) |-> [kind |-> "option", option |-> DeclaredOptions(s)[i], command |-> ""]]
    \o [i \in 1..Len(CommandsOf(s)) |-> [kind |-> "command", option |-> NoOption, command |-> CommandsOf(s)[i]]]
    \o << [kind |-> "help", option |-> HelpOption, command |-> ""] >>

(***************************************************************************)
(* The resolver index (class Resolver).  One record for the whole tree:    *)
(* each private map is a function of the scope that owns it.               *)
(***************************************************************************)
EmptyIndex ==
    [ options |-> [sc \in Scopes |-> <<>>],
      keyMap |-> [sc \in Scopes |-> {}],
      longNameMap |-> [sc \in Scopes |-> {}],
      shortNameMap |-> [sc \in Scopes |-> {}],
      positionMap |-> [sc \in Scopes |-> <<>>],
      groups |-> [sc \in Scopes |-> <<>>],
      rest |-> [sc \in Scopes |-> NoOption],
      passthru |-> [sc \in Scopes |-> NoOption],
      commandMap |-> [sc \in Scopes |-> {}],
      hasCommands |-> [sc \in Scopes |-> FALSE],
      defaultGroup |-> [sc \in Scopes |-> ""],
      hasHelp |-> FALSE ]

\* The elements of a sequence.
Range(seq) == {seq[i] : i \in 1..Len(seq)}

\* Query.from(xs).intersect(ys).toArray()
intersect(xs, ys) == SelectSeq(xs, LAMBDA g : g \in Range(ys))

\* this._positionMap.get(position): the options registered at a position,
\* in registration order.
OptionsForPosition(ix, scope, p) == SelectSeq(ix.positionMap[scope], LAMBDA o : o.position = p)

\* The truthiness of an array object in a condition: every object is
\* truthy, the empty array included.
truthy(array) == Len(array) >= 0

\* Resolver._addPosition: the configuration error it throws, "" when it
\* registers the option.  The loop throws at the first existing option
\* that has no groups or whose `intersection` array is truthy.
AddPositionError(options, option) ==
    IF option.groups = <<>>
    THEN IF Len(options) > 0 THEN "duplicatePosition" ELSE ""
    ELSE LET throws(i) == options[i].groups = <<>> \/ truthy(intersect(options[i].groups, option.groups))
             hits == {i \in 1..Len(options) : throws(i)}
             first == CHOOSE i \in hits : \A j \in hits : i <= j
         IN  IF hits = {} THEN ""
             ELSE IF options[first].groups # <<>> THEN "duplicatePositionWithGroups"
             ELSE "duplicatePosition"

\* Resolver._addGroups
AddGroups(seq, option) ==
    seq \o SelectSeq(option.groups, LAMBDA g : g \notin Range(seq))

\* Aliases that are registered without a look at the names in use.
AddAliasesErrorNone(shortNames, longNames, aliases, i) == ""

\* Resolver._addAliases from alias i on: a one-character alias goes
\* through _addShortName, any other through _addLongName; the first
\* duplicate throws.  The names are those registered so far.
RECURSIVE AddAliasesError(_, _, _, _)
AddAliasesError(shortNames, longNames, aliases, i) ==
    IF i > Len(aliases) THEN ""
    ELSE IF OneCharacter(aliases[i])
         THEN IF aliases[i] \in shortNames THEN "duplicateAlias"
              ELSE AddAliasesError(shortNames \cup {aliases[i]}, longNames, aliases, i + 1)
         ELSE IF normalizeName(aliases[i], TRUE) \in longNames THEN "duplicateAlias"
              ELSE AddAliasesError(shortNames, longNames \cup {normalizeName(aliases[i], TRUE)}, aliases, i + 1)

\* The names an option's aliases add to the short-name map and to the
\* long-name map.
ShortAliases(o) == {o.aliases[i] : i \in {j \in 1..Len(o.aliases) : OneCharacter(o.aliases[j])}}

LongAliases(o) == {normalizeName(o.aliases[i], TRUE) : i \in {j \in 1..Len(o.aliases) : ~OneCharacter(o.aliases[j])}}

\* checkCommandLineOption(key, type, commandLineOption): the error it
\* throws, "" when the declaration is consistent.
checkCommandLineOption(o) ==
    IF o.type = "boolean" /\ o.declared.multiple THEN "booleanOptionCannotBeMultiple"
    ELSE IF o.type = "boolean" /\ o.passthru THEN "booleanOptionCannotBePassthru"
    ELSE IF o.type = "boolean" /\ o.rest THEN "booleanOptionCannotBeRest"
    ELSE IF o.type # "boolean" /\ o.help THEN "stringOrNumberOptionCannotBeHelp"
    ELSE IF o.single /\ o.declared.multiple THEN "optionCannotBeBothSingleAndMultiple"
    ELSE IF o.single /\ o.rest THEN "restOptionCannotBeSingle"
    ELSE IF o.help /\ o.declared.multiple THEN "helpOptionCannotBeMultiple"
    ELSE IF o.help /\ o.rest THEN "helpOptionCannotBeRest"
    ELSE IF o.help /\ o.passthru THEN "helpOptionCannotBePassthru"
    ELSE ""

\* Resolver.addOption: the first check that throws, "" when none does.
AddOptionError(ix, o) ==
    IF checkCommandLineOption(o) # "" THEN checkCommandLineOption(o)
    ELSE IF \E e \in ix.keyMap[o.scope] : e[1] = o.key THEN "duplicateKey"
    ELSE IF o.passthru /\ ix.passthru[o.scope] # NoOption THEN "duplicatePassthru"
    ELSE IF o.rest /\ ix.rest[o.scope] # NoOption THEN "duplicateRest"
    ELSE IF o.longName # "" /\ \E e \in ix.longNameMap[o.scope] : e[1] = normalizeName(o.longName, TRUE) THEN "duplicateLongName"
    ELSE IF o.shortName # "" /\ \E e \in ix.shortNameMap[o.scope] : e[1] = o.shortName THEN "duplicateShortName"
    ELSE IF o.position # NoPosition /\ AddPositionError(OptionsForPosition(ix, o.scope, o.position), o) # ""
         THEN AddPositionError(OptionsForPosition(ix, o.scope, o.position), o)
    ELSE AddAliasesError({e[1] : e \in ix.shortNameMap[o.scope]} \cup (IF o.shortName # "" THEN {o.shortName} ELSE {}),
                         {e[1] : e \in ix.longNameMap[o.scope]} \cup (IF o.longName # "" THEN {normalizeName(o.longName, TRUE)} ELSE {}),
                         o.aliases, 1)

\* A help flag that an option of any scope sets.
hasHelpAfterAnyScope(ix, o) == ix.hasHelp \/ o.help

\* CommandLineResolver.addOption: _hasHelp after the option is added.  Only
\* the top-level resolver overrides addOption; a Command adds its options
\* through Resolver.addOption.
hasHelpAfter(ix, o) == ix.hasHelp \/ (o.help /\ o.scope = "root")

\* Resolver.addOption: the index after a successful registration.
AddOptionIndex(ix, o) ==
    [ ix EXCEPT
        !.keyMap[o.scope] = @ \cup {<<o.key, o>>},
        !.passthru[o.scope] = IF o.passthru THEN o ELSE @,
        !.rest[o.scope] = IF o.rest THEN o ELSE @,
        !.longNameMap[o.scope] = (IF o.longName # "" THEN @ \cup {<<normalizeName(o.longName, TRUE), o>>} ELSE @)
                                   \cup {<<n, o>> : n \in LongAliases(o)},
        !.shortNameMap[o.scope] = (IF o.shortName # "" THEN @ \cup {<<o.shortName, o>>} ELSE @)
                                    \cup {<<n, o>> : n \in ShortAliases(o)},
        !.positionMap[o.scope] = IF o.position # NoPosition THEN Append(@, o) ELSE @,
        !.groups[o.scope] = AddGroups(@, o),
        !.options[o.scope] = Append(@, o),
        !.hasHelp = hasHelpAfter(ix, o) ]

\* Resolver._addCommand / _addCommandName for the command `c`; a command
\* name is registered in the parent under its case-folded name.
AddCommandError(ix, c) ==
    IF \E e \in ix.commandMap[Parent(c)] : e[1] = normalizeName(c, TRUE) THEN "duplicateCommand" ELSE ""

AddCommandIndex(ix, c) ==
    [ ix EXCEPT
        !.commandMap[Parent(c)] = @ \cup {<<normalizeName(c, TRUE), c>>},
        !.hasCommands[Parent(c)] = TRUE ]

(***************************************************************************)
(* Resolver lookups: the scope's own map first, then the parent's.         *)
(***************************************************************************)
Lookup(map, name) == IF \E e \in map : e[1] = name THEN (CHOOSE e \in map : e[1] = name)[2] ELSE NoOption

RECURSIVE fromShortName(_, _, _)
fromShortName(ix, scope, shortName) ==
    LET own == Lookup(ix.shortNameMap[scope], shortName)
    IN  IF own # NoOption THEN own
        ELSE IF scope # "root" THEN fromShortName(ix, Parent(scope), shortName) ELSE NoOption

\* A long-name lookup that asks the outermost scope first.
RECURSIVE fromLongNameOutermost(_, _, _)
fromLongNameOutermost(ix, scope, longName) ==
    LET own == Lookup(ix.longNameMap[scope], normalizeName(longName, TRUE))
        inherited == IF scope # "root" THEN fromLongNameOutermost(ix, Parent(scope), longName) ELSE NoOption
    IN  IF inherited # NoOption THEN inherited ELSE own

RECURSIVE fromLongName(_, _, _)
fromLongName(ix, scope, longName) ==
    LET own == Lookup(ix.longNameMap[scope], normalizeName(longName, TRUE))
    IN  IF own # NoOption THEN own
        ELSE IF scope # "root" THEN fromLongName(ix, Parent(scope), longName) ELSE NoOption

\* <<>> stands for `undefined` (no option was ever registered there).
RECURSIVE fromPosition(_, _, _)
fromPosition(ix, scope, p) ==
    LET own == OptionsForPosition(ix, scope, p)
    IN  IF own # <<>> THEN own
        ELSE IF scope # "root" THEN fromPosition(ix, Parent(scope), p) ELSE <<>>

\* resolver.get(key)
RECURSIVE get(_, _, _)
get(ix, scope, key) ==
    LET own == Lookup(ix.keyMap[scope], key)
    IN  IF own # NoOption THEN own
        ELSE IF scope # "root" THEN get(ix, Parent(scope), key) ELSE NoOption

RECURSIVE getPassthru(_, _)
getPassthru(ix, scope) ==
    IF ix.passthru[scope] # NoOption THEN ix.passthru[scope]
    ELSE IF scope # "root" THEN getPassthru(ix, Parent(scope)) ELSE NoOption

RECURSIVE getRest(_, _)
getRest(ix, scope) ==
    IF ix.rest[scope] # NoOption THEN ix.rest[scope]
    ELSE IF scope # "root" THEN getRest(ix, Parent(scope)) ELSE NoOption

\* A command lookup that falls back to the parent scope's commands.
RECURSIVE fromCommandNameInherited(_, _, _)
fromCommandNameInherited(ix, scope, commandName) ==
    LET hits == {e \in ix.commandMap[scope] : e[1] = normalizeName(commandName, TRUE)}
    IN  IF hits # {} THEN (CHOOSE e \in hits : TRUE)[2]
        ELSE IF scope # "root" THEN fromCommandNameInherited(ix, Parent(scope), commandName) ELSE ""

\* resolver.getCommand(name): the scope's own command of that name, ""
\* when it has none.  Commands are not inherited from the parent.
fromCommandName(ix, scope, commandName) ==
    LET hits == {e \in ix.commandMap[scope] : e[1] = normalizeName(commandName, TRUE)}
    IN  IF hits = {} THEN "" ELSE (CHOOSE e \in hits : TRUE)[2]

(***************************************************************************)
(* Parsed arguments (the tokens parse() produces).                         *)
(***************************************************************************)
NoParameter == [present |-> FALSE, shortName |-> "", longName |-> "", passthru |-> FALSE, no |-> FALSE]

ShortName(n) == [present |-> TRUE, shortName |-> n, longName |-> "", passthru |-> FALSE, no |-> FALSE]

LongName(n) == [present |-> TRUE, shortName |-> "", longName |-> n, passthru |-> FALSE, no |-> FALSE]

\* --no-<longName>
NoLongName(n) == [present |-> TRUE, shortName |-> "", longName |-> n, passthru |-> FALSE, no |-> TRUE]

\* ParsedArgumentValue: `value` and `values` are each optional.
NoArgument == [present |-> FALSE, hasValue |-> FALSE, value |-> "", hasValues |-> FALSE, values |-> <<>>]

Value(v) == [present |-> TRUE, hasValue |-> TRUE, value |-> v, hasValues |-> FALSE, values |-> <<>>]

\* A comma list: `value` is the whole text, `values` its elements.
Values(v, vs) == [present |-> TRUE, hasValue |-> TRUE, value |-> v, hasValues |-> TRUE, values |-> vs]

\* --: the separator token of tryParsePassthruOption.
Passthru == [present |-> TRUE, shortName |-> "", longName |-> "", passthru |-> TRUE, no |-> FALSE]

\* { values }: an argument that carries a list and no text of its own.
ValuesOnly(vs) == [present |-> TRUE, hasValue |-> FALSE, value |-> "", hasValues |-> TRUE, values |-> vs]

parsed(text, parameter, argument) == [id |-> 0, text |-> text, parameter |-> parameter, argument |-> argument]

\* tryParseArgumentValue: a bare argument carries its own text as value.
arg(text, argument) == parsed(text, NoParameter, argument)

NoParsed == parsed("", NoParameter, NoArgument)

\* The tokens a command line is drawn from, per settings.
TokensOf(s) ==
    CASE s = "basic" ->
           { parsed("--b", LongName("b"), NoArgument),
             parsed("--c", LongName("c"), NoArgument),
             parsed("--d", LongName("d"), NoArgument),
             parsed("--dc", LongName("dc"), NoArgument),
             parsed("--d=e,f", LongName("d"), Values("e,f", <<"e", "f">>)),
             parsed("--dc=e,f", LongName("dc"), Values("e,f", <<"e", "f">>)),
             parsed("--nope", LongName("nope"), NoArgument),
             arg("e", Value("e")),
             parsed("-h", ShortName("h"), NoArgument),
             arg("e,f", Values("e,f", <<"e", "f">>)),
             arg("1,2", Values("1,2", <<"1", "2">>)) }
      [] s = "groups" ->
           { parsed("--gab", LongName("gab"), NoArgument),
             parsed("--gbc", LongName("gbc"), NoArgument),
             parsed("--gc", LongName("gc"), NoArgument),
             parsed("--gbc=maybe", LongName("gbc"), Value("maybe")),
             arg("e", Value("e")) }
      [] s = "commands" ->
           { arg("z", Value("z")), arg("w", Value("w")), arg("v", Value("v")),
             arg("foo", Value("foo")),
             parsed("--b", LongName("b"), NoArgument),
             parsed("-a", ShortName("a"), NoArgument),
             parsed("-q", ShortName("q"), NoArgument) }
      [] s = "positions" ->
           { arg("e", Value("e")), arg("f", Value("f")),
             parsed("--x=e", LongName("x"), Value("e")),
             parsed("--y=e", LongName("y"), Value("e")) }
      [] s = "rest" ->
           { arg("e", Value("e")), arg("f", Value("f")),
             parsed("--s=e", LongName("s"), Value("e")),
             parsed("--s=f", LongName("s"), Value("f")),
             parsed("-h", ShortName("h"), NoArgument),
             parsed("--nope", LongName("nope"), NoArgument) }
      [] s = "switches" ->
           { parsed("-a", ShortName("a"), NoArgument),
             parsed("--a=no", LongName("a"), Value("no")),
             parsed("--a=yes", LongName("a"), Value("yes")),
             parsed("--no-a", NoLongName("a"), NoArgument),
             parsed("--no-a=0", NoLongName("a"), Value("0")),
             parsed("--a=maybe", LongName("a"), Value("maybe")),
             parsed("--a=", LongName("a"), Value("")) }
      [] s = "required" ->
           { parsed("--b=e", LongName("b"), Value("e")),
             parsed("--b=f", LongName("b"), Value("f")),
             parsed("--n=e", LongName("n"), Value("e")),
             parsed("--m=1", LongName("m"), Value("1")),
             parsed("--m=e", LongName("m"), Value("e")),
             parsed("-h", ShortName("h"), NoArgument) }
      [] s = "defaults" ->
           { parsed("--b=e", LongName("b"), Value("e")),
             parsed("--c=2", LongName("c"), Value("2")),
             parsed("--d=f", LongName("d"), Value("f")),
             parsed("--dc=e,f", LongName("dc"), Values("e,f", <<"e", "f">>)),
             parsed("--nope", LongName("nope"), NoArgument),
             parsed("-h", ShortName("h"), NoArgument) }
      [] s = "hooks" ->
           { parsed("--b=e", LongName("b"), Value("e")),
             parsed("--b=f", LongName("b"), Value("f")),
             parsed("--s=e", LongName("s"), Value("e")),
             parsed("--s=f", LongName("s"), Value("f")),
             parsed("--c=1", LongName("c"), Value("1")),
             parsed("-h", ShortName("h"), NoArgument) }
      [] s = "shadow" ->
           { arg("w", Value("w")), arg("v", Value("v")),
             parsed("-a", ShortName("a"), NoArgument),
             parsed("--b=e", LongName("b"), Value("e")),
             parsed("--c=1", LongName("c"), Value("1")) }
      [] s = "aliases" ->
           { parsed("--d_c", LongName("d_c"), NoArgument),
             parsed("-k", ShortName("k"), NoArgument),
             parsed("--k=1", LongName("k"), Value("1")),
             parsed("--BEE=e", LongName("BEE"), Value("e")),
             parsed("-B", ShortName("B"), Value("e")) }
      [] s \in {"helpdecl", "cmdhelp"} ->
           { parsed("-u", ShortName("u"), NoArgument),
             parsed("-?", ShortName("?"), NoArgument),
             parsed("-h", ShortName("h"), NoArgument),
             arg("w", Value("w")) }
      [] s = "empty" ->
           { parsed("--help", LongName("help"), NoArgument),
             parsed("-?", ShortName("?"), NoArgument),
             arg("e", Value("e")) }
      [] s = "exec" ->
           { arg("z", Value("z")), arg("w", Value("w")), arg("e", Value("e")),
             parsed("-a", ShortName("a"), NoArgument),
             parsed("-h", ShortName("h"), NoArgument) }
      [] s \in GroupSettings ->
           { parsed("--ga", LongName("ga"), NoArgument),
             parsed("--gb", LongName("gb"), NoArgument),
             parsed("--da=c", LongName("da"), Value("c")),
             parsed("--rb=e", LongName("rb"), Value("e")),
             arg("e", Value("e")) }
      [] s = "aliasopt" ->
           { parsed("--k", LongName("k"), NoArgument),
             parsed("--l", LongName("l"), NoArgument),
             arg("e", Value("e")) }
      [] s = "aliascmd" ->
           { arg("z", Value("z")),
             arg("w", Value("w")),
             arg("l", Value("l")),
             arg("e", Value("e")) }
      [] s = "infer" ->
           { parsed("--n=e", LongName("n"), Value("e")),
             parsed("--m=1", LongName("m"), Value("1")),
             parsed("-a", ShortName("a"), NoArgument),
             arg("e", Value("e")) }
      [] OTHER -> { arg("e", Value("e")) }

\* Argument lists of at most n tokens.
RECURSIVE ArgLists(_, _)
ArgLists(tokens, n) ==
    IF n = 0 THEN {<<>>}
    ELSE LET shorter == ArgLists(tokens, n - 1)
         IN  shorter \cup {Append(l, t) : l \in {x \in shorter : Len(x) = n - 1}, t \in tokens}

\* host.readFileSync(file), split into lines.
ResponseFile(file) == IF file = "f" THEN <<"-a", "e">> ELSE <<>>

\* responseFilePattern.exec(arg): the file an argument names, "" when it
\* names none.
responseFilePattern == ("@f" :> "f")

\* optionPattern.exec(arg) over the option arguments of the model: the
\* parameter, whether a `=` follows it, and the text after the `=`.
optionPattern ==
    ("-a" :> [parameter |-> ShortName("a"), hasValue |-> FALSE, value |-> ""]) @@
    ("-h" :> [parameter |-> ShortName("h"), hasValue |-> FALSE, value |-> ""]) @@
    ("--l" :> [parameter |-> LongName("l"), hasValue |-> FALSE, value |-> ""]) @@
    ("--b" :> [parameter |-> LongName("b"), hasValue |-> FALSE, value |-> ""]) @@
    ("--b=" :> [parameter |-> LongName("b"), hasValue |-> TRUE, value |-> ""]) @@
    ("--b=e" :> [parameter |-> LongName("b"), hasValue |-> TRUE, value |-> "e"])

\* parseArgumentValue(text, args) for a text without a comma: { value }.
parseArgumentValue(text) == Value(text)

\* A separator that captures only the argument next to it.
tryParsePassthruOptionNext(text, rest) ==
    [ token |-> parsed(text, Passthru, ValuesOnly(SubSeq(rest, 1, IF Len(rest) > 0 THEN 1 ELSE 0))),
      args |-> IF Len(rest) > 0 THEN Tail(rest) ELSE rest ]

\* tryParsePassthruOption for the argument "--": the token, and the arguments
\* left after args.splice(0).
tryParsePassthruOption(text, rest) ==
    [ token |-> parsed(text, Passthru, ValuesOnly(rest)), args |-> <<>> ]

\* tryParseOption for an argument optionPattern matches: an empty inline
\* value takes the next argument, whatever it is.
tryParseOption(text, rest) ==
    LET m == optionPattern[text]
    IN  IF m.hasValue /\ m.value # ""
        THEN [token |-> parsed(text, m.parameter, parseArgumentValue(m.value)), args |-> rest]
        ELSE IF m.hasValue /\ Len(rest) > 0
        THEN [token |-> parsed(text, m.parameter, parseArgumentValue(Head(rest))), args |-> Tail(rest)]
        ELSE [token |-> parsed(text, m.parameter, NoArgument), args |-> rest]

\* args.unshift(line) for each line of the file, in file order.
RECURSIVE unshiftLines(_, _)
unshiftLines(lines, rest) ==
    IF lines = <<>> THEN rest ELSE unshiftLines(Tail(lines), <<Head(lines)>> \o rest)

\* parseArgument(arg, args, parsedArguments, host): the tokens one argument
\* adds to parsedArguments and the arguments left after it.
parseArgument(a, rest) ==
    IF a = "--"
    THEN [tokens |-> <<tryParsePassthruOption(a, rest).token>>, args |-> tryParsePassthruOption(a, rest).args]
    ELSE IF a \in DOMAIN optionPattern
    THEN [tokens |-> <<tryParseOption(a, rest).token>>, args |-> tryParseOption(a, rest).args]
    ELSE IF a \in DOMAIN responseFilePattern
    THEN [tokens |-> <<>>, args |-> unshiftLines(ResponseFile(responseFilePattern[a]), rest)]
    ELSE [tokens |-> <<arg(a, parseArgumentValue(a))>>, args |-> rest]

\* parse(args): the parsed arguments of a raw command line.
RECURSIVE parse(_)
parse(rawArgs) ==
    IF rawArgs = <<>> THEN <<>>
    ELSE CHOOSE tokens \in
            { one.tokens \o parse(one.args) : one \in {parseArgument(Head(rawArgs), Tail(rawArgs))} } : TRUE

\* The raw arguments a command line is drawn from, for the settings whose
\* command lines go through parse().
RawArgsOf(s) ==
    CASE s = "passthru" -> {"--", "e", "-a", "--b=", "@f"}
      [] s = "passcmd" -> {"--", "z", "-a"}
      [] s = "chain" -> {"--", "w", "e"}
      [] OTHER -> {}

\* The longest command line of a settings.
MaxLength(s) == IF s \in ExecSettings THEN MaxExecArgs ELSE MaxArgs

\* The command lines of a settings: raw arguments and their parse, or
\* tokens handed to bind as they are.
CommandLines(s) ==
    IF RawArgsOf(s) # {}
    THEN {[args |-> raw, parsedArguments |-> parse(raw)] : raw \in ArgLists(RawArgsOf(s), MaxArgs)}
    ELSE {[args |-> [i \in 1..Len(list) |-> list[i].text], parsedArguments |-> list] :
             list \in ArgLists(TokensOf(s), MaxLength(s))}

\* Each token is its own object: its identity is its place on the command line.
WithIds(list) == [i \in 1..Len(list) |-> [list[i] EXCEPT !.id = i]]

(***************************************************************************)
(* Errors (CommandLineParseError) and bound arguments.                     *)
(***************************************************************************)
NoError == [kind |-> "", about |-> 0, option |-> "", help |-> FALSE, status |-> 0]

\* new CommandLineParseError(message, /*help*/ true): status defaults to -1.
ParseError(kind, about) == [kind |-> kind, about |-> about, option |-> "", help |-> TRUE, status |-> 0 - 1]

\* new CommandLineParseError(message): help defaults to false.
PlainError(kind, about) == [kind |-> kind, about |-> about, option |-> "", help |-> FALSE, status |-> 0 - 1]

NoValue == [defined |-> FALSE, value |-> Undefined, hasValues |-> FALSE, values |-> <<>>]

BoundValue(v) == [defined |-> TRUE, value |-> v, hasValues |-> FALSE, values |-> <<>>]

BoundValues(v, vs) == [defined |-> TRUE, value |-> v, hasValues |-> TRUE, values |-> vs]

BoundArgument(p, option, argument, error) == [parsed |-> p, option |-> option, argument |-> argument, error |-> error]

\* An array that belongs to no option.
NoOwner == [scope |-> "", key |-> ""]

\* groups: string[] | undefined.  `owner` names the option whose `groups`
\* array this very array is; a copy has no owner.
NoGroups == [defined |-> FALSE, list |-> <<>>, owner |-> NoOwner]

Groups(list) == [defined |-> TRUE, list |-> list, owner |-> NoOwner]

\* option.groups: the option's own array, not a copy.
sameGroups(option) == [defined |-> TRUE, list |-> option.groups, owner |-> [scope |-> option.scope, key |-> option.key]]

\* option.groups.slice()
sliceGroups(option) == Groups(option.groups)

\* The resolver after a splice of the array g: an array an option owns is
\* the option's group list, wherever the resolver holds the option.
resolverAfter(ix, g) ==
    IF g.owner = NoOwner THEN ix
    ELSE LET spliced(o) == IF o.scope = g.owner.scope /\ o.key = g.owner.key THEN [o EXCEPT !.groups = g.list] ELSE o
             each(seq) == [i \in 1..Len(seq) |-> spliced(seq[i])]
             entries(map) == {<<e[1], spliced(e[2])>> : e \in map}
         IN  [ ix EXCEPT
                 !.options = [sc \in Scopes |-> each(@[sc])],
                 !.positionMap = [sc \in Scopes |-> each(@[sc])],
                 !.keyMap = [sc \in Scopes |-> entries(@[sc])],
                 !.longNameMap = [sc \in Scopes |-> entries(@[sc])],
                 !.shortNameMap = [sc \in Scopes |-> entries(@[sc])],
                 !.rest = [sc \in Scopes |-> spliced(@[sc])],
                 !.passthru = [sc \in Scopes |-> spliced(@[sc])] ]

(***************************************************************************)
(* Binder: value binding (binder.ts).  A function that may throw returns   *)
(* a record whose `error` names what it threw ("" when it returned).       *)
(***************************************************************************)
\* A conversion that takes every unrecognized text for true.
convertBooleanLenient(item) ==
    IF booleanFalse(item) THEN [error |-> "", value |-> FALSE] ELSE [error |-> "", value |-> TRUE]

\* convertBoolean (no converter declared)
convertBoolean(item) ==
    IF booleanTrue(item) THEN [error |-> "", value |-> TRUE]
    ELSE IF booleanFalse(item) THEN [error |-> "", value |-> FALSE]
    ELSE [error |-> "expects a boolean", value |-> FALSE]

bindBooleanOption(option, tok) ==
    LET argument == tok.argument
        converted == IF argument.present /\ argument.hasValue /\ argument.value # ""
                     THEN convertBoolean(argument.value)
                     ELSE [error |-> "", value |-> TRUE]
        value == IF tok.parameter.present /\ tok.parameter.no THEN ~converted.value ELSE converted.value
    IN  IF converted.error # "" THEN [error |-> converted.error, argument |-> NoValue]
        ELSE [error |-> "", argument |-> BoundValue(Bool(value))]

\* A look-ahead that does not test the next token's parameter descriptor.
CanReadNextAnyToken(args, hasArgs) == hasArgs /\ Len(args) > 0

\* readNextArgumentValue: args is `undefined` outside the named phase.
CanReadNext(args, hasArgs) == hasArgs /\ Len(args) > 0 /\ ~args[1].parameter.present

readNextArgumentValue(args, hasArgs) == IF CanReadNext(args, hasArgs) THEN args[1].argument ELSE NoArgument

\* A conversion that takes a text that is no number for 0.
convertNumberLenient(item) ==
    IF isNaN(item) THEN [error |-> "", value |-> Num(0)]
    ELSE [error |-> "", value |-> Num(parseInt(item))]

\* convertNumber (no converter declared)
convertNumber(item) ==
    IF isNaN(item) THEN [error |-> "expects a number", value |-> Undefined]
    ELSE [error |-> "", value |-> Num(parseInt(item))]

\* convertString (no converter declared)
convertString(item) == Str(item)

\* A test that splits the comma list for every option declared multiple.
UsesValuesIfMultiple(option, tok, argument) ==
    argument.hasValues /\ (option.multiple # "false" \/ (tok.parameter.present /\ tok.parameter.passthru))

\* A test that passes the comma list on for every option.
UsesValuesAlways(option, tok, argument) == argument.hasValues

\* The test both bindNumberOption and bindStringOption make before they
\* look at argument.values.
UsesValues(option, tok, argument) ==
    argument.hasValues /\ (option.multiple = "comma-separated" \/ (tok.parameter.present /\ tok.parameter.passthru))

bindStringOption(option, tok, args, hasArgs) ==
    LET argument == IF tok.argument.present THEN tok.argument ELSE readNextArgumentValue(args, hasArgs)
        values == [i \in 1..Len(argument.values) |-> convertString(argument.values[i])]
    IN  IF ~argument.present THEN [error |-> "", argument |-> NoValue]
        ELSE IF UsesValues(option, tok, argument)
        THEN IF Len(values) = 0 THEN [error |-> "", argument |-> NoValue]
             ELSE IF Len(values) = 1 THEN [error |-> "", argument |-> BoundValue(values[1])]
             ELSE [error |-> "", argument |-> BoundValues(IF argument.hasValue THEN Str(argument.value) ELSE Undefined, values)]
        ELSE IF argument.hasValue THEN [error |-> "", argument |-> BoundValue(convertString(argument.value))]
        ELSE [error |-> "", argument |-> NoValue]

bindNumberOption(option, tok, args, hasArgs) ==
    LET argument == IF tok.argument.present THEN tok.argument ELSE readNextArgumentValue(args, hasArgs)
        converted == [i \in 1..Len(argument.values) |-> convertNumber(argument.values[i])]
        values == [i \in 1..Len(converted) |-> converted[i].value]
        value == convertNumber(argument.value)
    IN  IF ~argument.present THEN [error |-> "", argument |-> NoValue]
        ELSE IF UsesValues(option, tok, argument)
        THEN IF \E i \in 1..Len(converted) : converted[i].error # "" THEN [error |-> "expects a number", argument |-> NoValue]
             ELSE IF Len(values) = 0 THEN [error |-> "", argument |-> NoValue]
             ELSE IF Len(values) = 1 THEN [error |-> "", argument |-> BoundValue(values[1])]
             ELSE [error |-> "", argument |-> BoundValues(IF argument.hasValue THEN Str(argument.value) ELSE Undefined, values)]
        ELSE IF argument.hasValue
        THEN IF value.error # "" THEN [error |-> value.error, argument |-> NoValue]
             ELSE [error |-> "", argument |-> BoundValue(value.value)]
        ELSE [error |-> "", argument |-> NoValue]

\* A push that puts the bound argument at the front of the result list.
unshiftBound(list, bound) == <<bound>> \o list

\* boundArguments.push(boundArgument)
pushBound(list, bound) == Append(list, bound)

\* A read that leaves the token it read in the list.
peekRead(args) == args

\* args.shift() in readNextArgumentValue: the list after the read.
shiftRead(args) == Tail(args)

\* bindArgument: the bound argument, the argument list after a possible
\* look-ahead read, and usedPositions after the call.
bindArgument(tok, option, args, hasArgs, used) ==
    LET bound == CASE option.type = "boolean" -> bindBooleanOption(option, tok)
                   [] option.type = "number" -> bindNumberOption(option, tok, args, hasArgs)
                   [] option.type = "string" -> bindStringOption(option, tok, args, hasArgs)
        reads == option.type # "boolean" /\ ~tok.argument.present /\ CanReadNext(args, hasArgs)
        error == IF bound.error # "" THEN ParseError(bound.error, tok.id)
                 ELSE IF ~bound.argument.defined THEN ParseError("expects a value", tok.id)
                 ELSE NoError
    IN  IF option = NoOption
        THEN [bound |-> BoundArgument(tok, NoOption, NoValue, ParseError("unrecognized", tok.id)), args |-> args, used |-> used]
        ELSE [bound |-> BoundArgument(tok, option, IF error = NoError THEN bound.argument ELSE NoValue, error),
              args |-> IF reads THEN shiftRead(args) ELSE args,
              used |-> IF option.position # NoPosition THEN used \cup {option.position} ELSE used]

(***************************************************************************)
(* Binder: group restrictions.                                             *)
(***************************************************************************)
\* A splice loop that stops before the first element (i > 0 for i >= 0).
RECURSIVE SpliceGroupsButFirst(_, _, _)
SpliceGroupsButFirst(list, i, optionGroups) ==
    IF i <= 1 THEN list
    ELSE IF list[i] \notin Range(optionGroups)
         THEN SpliceGroupsButFirst(SubSeq(list, 1, i - 1) \o SubSeq(list, i + 1, Len(list)), i - 1, optionGroups)
         ELSE SpliceGroupsButFirst(list, i - 1, optionGroups)

\* The splice loop of applyGroupRestrictions, from index i down to 1:
\* every group the option does not belong to is removed.
RECURSIVE SpliceGroups(_, _, _)
SpliceGroups(list, i, optionGroups) ==
    IF i = 0 THEN list
    ELSE IF list[i] \notin Range(optionGroups)
         THEN SpliceGroups(SubSeq(list, 1, i - 1) \o SubSeq(list, i + 1, Len(list)), i - 1, optionGroups)
         ELSE SpliceGroups(list, i - 1, optionGroups)

\* applyGroupRestrictions(arg, groups, copyOnModify): `groups` is the
\* returned value, `shared` the caller's array after the call (spliced in
\* place unless copyOnModify), `arg` the bound argument, which gets the
\* conflict error.
applyGroupRestrictions(bound, g, copyOnModify) ==
    IF bound.option = NoOption \/ bound.error # NoError \/ Len(bound.option.groups) = 0
    THEN [groups |-> g, shared |-> g, arg |-> bound]
    ELSE IF ~g.defined
    THEN [groups |-> sliceGroups(bound.option), shared |-> g, arg |-> bound]
    ELSE LET modifiedGroups == SpliceGroups(g.list, Len(g.list), bound.option.groups)
             inPlace == [g EXCEPT !.list = modifiedGroups]
         IN  [ groups |-> IF copyOnModify /\ modifiedGroups # g.list THEN Groups(modifiedGroups) ELSE inPlace,
               shared |-> IF copyOnModify THEN g ELSE inPlace,
               arg |-> IF Len(modifiedGroups) = 0
                       THEN [bound EXCEPT !.error = ParseError("conflicts", bound.parsed.id)]
                       ELSE bound ]

(***************************************************************************)
(* Construction: new CommandLineResolver(settings).                        *)
(***************************************************************************)
InitBind ==
    /\ commandLine = <<>>
    /\ argv = <<>>
    /\ parsedArguments = <<>>
    /\ unboundArguments = <<>>
    /\ freeArguments = <<>>
    /\ position = 0
    /\ usedPositions = {}
    /\ boundArguments = <<>>
    /\ boundCommand = <<>>
    /\ groups = NoGroups
    /\ resolver = "root"
    /\ bindCommands = FALSE
    /\ restOption = NoOption

Keys == {"a", "b", "c", "d", "dc", "m", "n", "x", "q", "s", "r", "gab", "gbc", "gc", "ga", "gb", "da", "dn", "rb", "px", "py", "help", "p", "y", "d-c", "usage", "host"}

Absent == [t |-> "absent", v |-> ""]

\* No parse of the shared CommandLine has returned yet.
NoFirst == [line |-> <<>>, result |-> [t |-> "none"]]

\* What an exec callback does with the result it is handed: nothing, or
\* set help, or set an error; "" where the settings declare no callback.
Behaviours == {"", "clean", "help", "error"}

\* settings.preExec / exec / postExec and the exec of the command z.
NoCallbacks == [preExec |-> FALSE, exec |-> "", command |-> "", postExec |-> FALSE]

InitResult ==
    [ options |-> [k \in Keys |-> Absent], commandName |-> "", command |-> "",
      group |-> "", help |-> Undefined, error |-> NoError, status |-> 0 ]

InitEval ==
    /\ evalIndex = 1
    /\ ok = TRUE
    /\ result = InitResult

InitOf(configurations) ==
    /\ settings \in configurations
    /\ revision \in Revisions
    /\ pc = "construct"
    /\ step = 1
    /\ index = [EmptyIndex EXCEPT !.defaultGroup["root"] = DefaultGroupOf(settings)]
    /\ thrown = ""
    /\ InitBind
    /\ InitEval
    /\ parses = 0
    /\ firstParse = NoFirst
    /\ handled = FALSE
    /\ invoked = <<>>
    /\ output = <<>>
    /\ exits = <<>>

\* Settings without `auto` and without exec callbacks.
NoExec ==
    /\ auto = "false"
    /\ callbacks = NoCallbacks
    /\ context = "context"
    /\ container = FALSE

Init == InitOf(Settings) /\ NoExec

\* The state after `new CommandLine(settings)` starts on one of the
\* configurations of GroupSettings.
InitGroups == InitOf(GroupSettings) /\ NoExec

\* The state after `new CommandLine(settings)` starts on one of the
\* configurations of AliasSettings.
InitAlias == InitOf(AliasSettings) /\ NoExec

\* The state after `new CommandLine(settings)` starts on one of the
\* configurations of TreeSettings.
InitTree == InitOf(TreeSettings) /\ NoExec

\* One registration of the constructor: Resolver.addOption for a declared
\* option, Resolver._addCommand for a command, and the synthetic help
\* option CommandLineResolver adds when no declared option is marked help.
Register ==
    /\ pc = "construct"
    /\ \E steps \in {BuildSteps(settings)} :
          /\ step <= Len(steps)
          /\ \E s \in {steps[step]} :
                \E error \in {CASE s.kind = "option" -> AddOptionError(index, s.option)
                                [] s.kind = "command" -> AddCommandError(index, s.command)
                                [] s.kind = "help" -> IF index.hasHelp THEN "" ELSE AddOptionError(index, s.option)} :
                   IF error # ""
                   THEN /\ pc' = "threw"
                        /\ thrown' = error
                        /\ UNCHANGED <<step, index>>
                   ELSE /\ index' = CASE s.kind = "option" -> AddOptionIndex(index, s.option)
                                       [] s.kind = "command" -> AddCommandIndex(index, s.command)
                                       [] s.kind = "help" -> IF index.hasHelp THEN index ELSE AddOptionIndex(index, s.option)
                        /\ step' = step + 1
                        /\ pc' = IF step = Len(steps) THEN "ready" ELSE "construct"
                        /\ UNCHANGED thrown
    /\ UNCHANGED <<settings, revision, commandLine, shareVars, execVars, argv, bindVars, evalVars>>

(***************************************************************************)
(* bind(parsedArguments, resolver)                                         *)
(***************************************************************************)
\* parse(args) is called on the constructed resolver: bind starts with the
\* parsed arguments and the root resolver.
Parse ==
    /\ pc = "ready"
    /\ \E line \in CommandLines(settings) :
          /\ commandLine' = line.args
          /\ argv' = WithIds(line.parsedArguments)
          /\ parsedArguments' = WithIds(line.parsedArguments)
    /\ bindCommands' = index.hasCommands["root"]
    /\ pc' = "named"
    /\ UNCHANGED <<settings, revision, shareVars, execVars, step, index, thrown, unboundArguments, freeArguments, position, usedPositions, boundArguments, boundCommand, groups, resolver, restOption, evalVars>>

\* A resolution that asks the root scope whatever the current scope is.
ResolveParameterAtRoot(ix, scope, parameter) ==
    IF parameter.passthru THEN getPassthru(ix, "root")
    ELSE IF parameter.shortName # "" THEN fromShortName(ix, "root", parameter.shortName)
    ELSE IF parameter.longName # "" THEN fromLongName(ix, "root", parameter.longName)
    ELSE NoOption

\* The option a named token resolves to.
ResolveParameter(ix, scope, parameter) ==
    IF parameter.passthru THEN getPassthru(ix, scope)
    ELSE IF parameter.shortName # "" THEN fromShortName(ix, scope, parameter.shortName)
    ELSE IF parameter.longName # "" THEN fromLongName(ix, scope, parameter.longName)
    ELSE NoOption

\* A BoundCommand entry; the chain is a sequence, innermost entry first,
\* and an entry's parent is the rest of the sequence.
CommandEntry(tok, command, error) == [parsed |-> tok, command |-> command, error |-> error]

\* The call stack has room for MaxStack nested calls of bindNamedArguments.
MaxStack == 2

\* The locals of bind a nested call of bindNamedArguments starts on: its
\* own list of unbound arguments is empty.
Locals(bound, used, g) ==
    [boundArguments |-> bound, usedPositions |-> used, groups |-> g, unboundArguments |-> <<>>, overflow |-> FALSE]

RECURSIVE bindNamedArguments(_, _, _, _, _)

\* One iteration of the loop of a nested bindNamedArguments: the token
\* list and the locals after it.  A named token is bound, or expanded in a
\* further call when its option is an alias; a bare token is unbound
\* (bindCommands is false).
bindNamedIteration(ix, scope, list, st, depth) ==
    IF ~Head(list).parameter.present
    THEN [args |-> Tail(list), st |-> [st EXCEPT !.unboundArguments = Append(@, Head(list))]]
    ELSE CHOOSE after \in
            { CHOOSE narrowed \in
                 { IF b.bound.option # NoOption /\ b.bound.option.aliasFor # <<>>
                   THEN IF depth >= MaxStack
                        THEN [args |-> <<>>, st |-> [st EXCEPT !.overflow = TRUE]]
                        ELSE [args |-> b.args,
                              st |-> [bindNamedArguments(ix, scope, parse(b.bound.option.aliasFor),
                                          [st EXCEPT !.usedPositions = b.used, !.groups = g.groups, !.unboundArguments = <<>>],
                                          depth + 1)
                                        EXCEPT !.unboundArguments = st.unboundArguments \o @]]
                   ELSE [args |-> b.args,
                         st |-> [st EXCEPT !.usedPositions = b.used, !.groups = g.groups,
                                           !.boundArguments = pushBound(@, g.arg)]] :
                   g \in {applyGroupRestrictions(b.bound, st.groups, FALSE)} } : TRUE :
              b \in {bindArgument(Head(list), ResolveParameter(ix, scope, Head(list).parameter), Tail(list), TRUE, st.usedPositions)} } : TRUE

\* bindNamedArguments(parsedArguments, /*bindCommands*/ false), the call
\* made on the expansion of an option that is an alias: the locals of bind
\* after the call and the unbound arguments it returns.  `overflow`: the
\* nesting exceeded the call stack (RangeError).
bindNamedArguments(ix, scope, list, st, depth) ==
    CHOOSE returned \in
        { IF l = <<>> \/ s.overflow THEN s
          ELSE CHOOSE after \in { bindNamedArguments(ix, scope, one.args, one.st, depth) :
                                    one \in {bindNamedIteration(ix, scope, l, s, depth)} } : TRUE :
          l \in {list}, s \in {st} } : TRUE

\* One iteration of the loop of bindNamedArguments.
BindNamedArgument ==
    /\ pc = "named"
    /\ parsedArguments # <<>>
    /\ LET tok == Head(parsedArguments)
           args == Tail(parsedArguments)
       IN  IF tok.parameter.present
           THEN LET property == ResolveParameter(index, resolver, tok.parameter)
                    b == bindArgument(tok, property, args, TRUE, usedPositions)
                    g == applyGroupRestrictions(b.bound, groups, FALSE)
                IN  /\ parsedArguments' = b.args
                    /\ UNCHANGED <<boundCommand, resolver, bindCommands>>
                    /\ IF property # NoOption /\ property.aliasFor # <<>>
                       THEN \E inner \in {bindNamedArguments(index, resolver, parse(property.aliasFor),
                                                              Locals(boundArguments, b.used, g.groups), 1)} :
                               /\ usedPositions' = inner.usedPositions
                               /\ groups' = inner.groups
                               /\ boundArguments' = inner.boundArguments
                               /\ unboundArguments' = unboundArguments \o inner.unboundArguments
                               /\ pc' = IF inner.overflow THEN "threw" ELSE pc
                               /\ thrown' = IF inner.overflow THEN "RangeError" ELSE thrown
                       ELSE /\ usedPositions' = b.used
                            /\ groups' = g.groups
                            /\ boundArguments' = pushBound(boundArguments, g.arg)
                            /\ UNCHANGED <<unboundArguments, pc, thrown>>
           ELSE IF bindCommands
           THEN LET command == fromCommandName(index, resolver, tok.text)
                IN  /\ IF command = ""
                       THEN /\ parsedArguments' = args
                            /\ boundCommand' = <<CommandEntry(tok, "", ParseError("unrecognized command", tok.id))>> \o boundCommand
                            /\ UNCHANGED <<resolver, bindCommands>>
                       ELSE IF getUnparsedArguments(settings, command) # <<>>
                       THEN /\ parsedArguments' = parse(getUnparsedArguments(settings, command)) \o args
                            /\ UNCHANGED <<boundCommand, resolver, bindCommands>>
                       ELSE /\ parsedArguments' = args
                            /\ resolver' = command
                            /\ bindCommands' = index.hasCommands[command]
                            /\ boundCommand' = <<CommandEntry(tok, command, NoError)>> \o boundCommand
                    /\ UNCHANGED <<unboundArguments, usedPositions, groups, boundArguments, pc, thrown>>
           ELSE /\ parsedArguments' = args
                /\ unboundArguments' = Append(unboundArguments, tok)
                /\ UNCHANGED <<usedPositions, groups, boundArguments, boundCommand, resolver, bindCommands, pc, thrown>>
    /\ index' = resolverAfter(index, groups')
    /\ UNCHANGED <<settings, revision, commandLine, shareVars, execVars, step, argv, freeArguments, position, restOption, evalVars>>

\* bindNamedArguments returns: bindPositionalArguments starts on the
\* unbound arguments.
BindNamedReturn ==
    /\ pc = "named"
    /\ parsedArguments = <<>>
    /\ parsedArguments' = unboundArguments
    /\ position' = 0
    /\ pc' = "positional"
    /\ UNCHANGED <<settings, revision, commandLine, shareVars, execVars, step, index, thrown, argv, unboundArguments, freeArguments, usedPositions, boundArguments, boundCommand, groups, resolver, bindCommands, restOption, evalVars>>

\* A position counter that skips nothing.
SkipUsedNever(p, used) == p

\* while (usedPositions.has(position)) position++
RECURSIVE SkipUsed(_, _)
SkipUsed(p, used) == IF p \in used THEN SkipUsed(p + 1, used) ELSE p

\* The trial bindings of one token against the options of a position:
\* the bindings without error, the committed groups array after the
\* trials, and usedPositions.
RECURSIVE PossibleBindings(_, _, _, _, _, _)
PossibleBindings(options, i, tok, shared, used, acc) ==
    IF i > Len(options) THEN [bindings |-> acc, shared |-> shared, used |-> used]
    ELSE LET b == bindArgument(tok, options[i], <<>>, FALSE, used)
             g == applyGroupRestrictions(b.bound, shared, TRUE)
         IN  PossibleBindings(options, i + 1, tok, g.shared, b.used,
                 IF g.arg.error = NoError
                 THEN Append(acc, [boundArgument |-> g.arg, possibleGroups |-> g.groups])
                 ELSE acc)

\* One iteration of the loop of bindPositionalArguments.
BindPositionalArgument ==
    /\ pc = "positional"
    /\ parsedArguments # <<>>
    /\ LET tok == Head(parsedArguments)
           p == SkipUsed(position, usedPositions)
           options == fromPosition(index, resolver, p)
       IN  IF restOption # NoOption /\ restOption.position # NoPosition /\ restOption.position <= p
           THEN /\ freeArguments' = freeArguments \o parsedArguments
                /\ parsedArguments' = <<>>
                /\ position' = p
                /\ UNCHANGED <<usedPositions, groups, boundArguments, pc, thrown>>
           ELSE /\ position' = p + 1
                /\ IF options = <<>>
                   THEN /\ parsedArguments' = Tail(parsedArguments)
                        /\ freeArguments' = Append(freeArguments, tok)
                        /\ UNCHANGED <<usedPositions, groups, boundArguments, pc, thrown>>
                   ELSE IF Len(options) = 1
                   THEN LET b == bindArgument(tok, options[1], <<>>, FALSE, usedPositions)
                            g == applyGroupRestrictions(b.bound, groups, FALSE)
                        IN  IF options[1].aliasFor # <<>>
                            THEN \E inner \in {bindNamedArguments(index, resolver, parse(options[1].aliasFor),
                                                                   Locals(boundArguments, b.used, g.groups), 1)} :
                                    /\ parsedArguments' = inner.unboundArguments \o Tail(parsedArguments)
                                    /\ usedPositions' = inner.usedPositions
                                    /\ groups' = inner.groups
                                    /\ boundArguments' = inner.boundArguments
                                    /\ pc' = IF inner.overflow THEN "threw" ELSE pc
                                    /\ thrown' = IF inner.overflow THEN "RangeError" ELSE thrown
                                    /\ UNCHANGED freeArguments
                            ELSE /\ parsedArguments' = Tail(parsedArguments)
                                 /\ usedPositions' = b.used
                                 /\ groups' = g.groups
                                 /\ boundArguments' = pushBound(boundArguments, g.arg)
                                 /\ UNCHANGED <<freeArguments, pc, thrown>>
                   ELSE LET t == PossibleBindings(options, 1, tok, groups, usedPositions, <<>>)
                        IN  /\ parsedArguments' = Tail(parsedArguments)
                            /\ usedPositions' = t.used
                            /\ UNCHANGED <<freeArguments, pc, thrown>>
                            /\ IF Len(t.bindings) = 1
                               THEN /\ groups' = t.bindings[1].possibleGroups
                                    /\ boundArguments' = pushBound(boundArguments, t.bindings[1].boundArgument)
                               ELSE /\ groups' = t.shared
                                    /\ boundArguments' = pushBound(boundArguments, BoundArgument(NoParsed, NoOption, NoValue, ParseError("ambiguous", tok.id)))
    /\ index' = resolverAfter(index, groups')
    /\ UNCHANGED <<settings, revision, commandLine, shareVars, execVars, step, argv, unboundArguments, boundCommand, resolver, bindCommands, restOption, evalVars>>

\* bindPositionalArguments returns: bindFreeArguments starts on the free
\* arguments.
BindPositionalReturn ==
    /\ pc = "positional"
    /\ parsedArguments = <<>>
    /\ parsedArguments' = freeArguments
    /\ pc' = "free"
    /\ UNCHANGED <<settings, revision, commandLine, shareVars, execVars, step, index, thrown, argv, unboundArguments, freeArguments, position, usedPositions, boundArguments, boundCommand, groups, resolver, bindCommands, restOption, evalVars>>

\* One iteration of the loop of bindFreeArguments.
BindFreeArgument ==
    /\ pc = "free"
    /\ parsedArguments # <<>>
    /\ LET tok == Head(parsedArguments)
       IN  /\ parsedArguments' = Tail(parsedArguments)
           /\ IF restOption = NoOption
              THEN /\ boundArguments' = pushBound(boundArguments, BoundArgument(tok, NoOption, NoValue, ParseError("unrecognized", tok.id)))
                   /\ UNCHANGED usedPositions
              ELSE LET b == bindArgument(tok, restOption, <<>>, FALSE, usedPositions)
                   IN  /\ boundArguments' = pushBound(boundArguments, b.bound)
                       /\ usedPositions' = b.used
    /\ UNCHANGED <<settings, revision, commandLine, shareVars, execVars, pc, step, index, thrown, argv, unboundArguments, freeArguments, position, boundCommand, groups, resolver, bindCommands, restOption, evalVars>>

(***************************************************************************)
(* evaluate(boundCommand, boundArguments, groups, resolver)                *)
(***************************************************************************)
\* JavaScript truthiness of a value.
Truthy(x) ==
    CASE x.t = "boolean" -> x.v
      [] x.t = "string" -> x.v # ""
      [] x.t = "number" -> x.v # 0
      [] x.t = "array" -> TRUE
      [] OTHER -> FALSE

\* A reportError that lets every report replace the previous one.
reportErrorLastWins(res, e) == [res EXCEPT !.error = e, !.help = Bool(e.help), !.status = e.status]

\* A reportError that keeps the first report whether or not help is set.
reportErrorDespiteHelp(res, e) ==
    IF res.error = NoError
    THEN [res EXCEPT !.error = e,
                     !.help = IF e.help /\ ~Truthy(res.help) THEN Bool(TRUE) ELSE @,
                     !.status = IF e.status # 0 - 1 \/ res.status = 0 THEN e.status ELSE @]
    ELSE res

\* reportError: only the first report is kept, and none after help.
reportError(res, e) ==
    IF revision = "earlier"
    THEN IF ~Truthy(res.help) /\ res.error = NoError
         THEN [res EXCEPT !.error = e, !.help = Bool(e.help), !.status = e.status]
         ELSE res
    ELSE IF res.error = NoError
         THEN [res EXCEPT !.error = e,
                          !.help = IF e.help /\ ~Truthy(res.help) THEN Bool(TRUE) ELSE @,
                          !.status = IF e.status # 0 - 1 \/ res.status = 0 THEN e.status ELSE @]
         ELSE res

\* Option.error(parameterName, error): the error an `error` definition on
\* the option puts in place of the given one.
OptionError(option, e) ==
    IF option.hasCustomError THEN [option.customError EXCEPT !.about = e.about] ELSE e

reportOptionError(res, option, e) == reportError(res, OptionError(option, e))

\* The later evaluate() walks the parents of the head of the command
\* chain and reads parent.command!.commandName of each: a TypeError when a
\* parent entry holds no command.
WalkThrows == \E k \in 2..Len(boundCommand) : boundCommand[k].command = ""

\* bind returns { boundArguments, boundCommand, groups, resolver } and
\* evaluate starts on it: commandName, then in the later revision the walk
\* of the command chain and the report of the head entry's error.
BindReturn ==
    /\ pc = "free"
    /\ parsedArguments = <<>>
    /\ IF revision = "later" /\ WalkThrows
       THEN /\ pc' = "threw"
            /\ thrown' = "TypeError"
            /\ UNCHANGED result
       ELSE /\ pc' = "evaluate"
            /\ UNCHANGED thrown
            /\ result' =
                 IF boundCommand = <<>> THEN result
                 ELSE IF revision = "earlier"
                 THEN [result EXCEPT !.commandName = boundCommand[1].command]
                 ELSE LET named == [result EXCEPT !.commandName = IF boundCommand[1].command # "" THEN boundCommand[1].parsed.text ELSE ""]
                      IN  IF boundCommand[1].error # NoError THEN reportError(named, boundCommand[1].error) ELSE named
    /\ UNCHANGED <<settings, revision, commandLine, shareVars, execVars, step, index, argv, bindVars, evalIndex, ok>>


\* Option.validate for an option that declares `in`: the error it
\* returns, NoError when the value is accepted.
validate(option, value, about) ==
    IF option.validateThrows THEN PlainError("validate threw", about)
    ELSE IF option.in # <<>> /\ value.t # "boolean" /\ value \notin Range(option.in)
    THEN PlainError("not valid", about)
    ELSE NoError

\* The first validation error among the values of a bound argument.
ValidationError(option, argument, about) ==
    LET items == IF argument.hasValues THEN argument.values ELSE <<argument.value>>
        bad == {i \in 1..Len(items) : validate(option, items[i], about) # NoError}
    IN  IF bad = {} THEN NoError
        ELSE validate(option, items[CHOOSE i \in bad : \A j \in bad : i <= j], about)

\* A help request that leaves the recorded error in place.
requestHelpKeepingError(res) == [res EXCEPT !.help = Bool(TRUE), !.status = 0]

\* help = true; status = 0; error = undefined;
requestHelp(res) == [res EXCEPT !.help = Bool(TRUE), !.status = 0, !.error = NoError]

\* New items put in front of the array.
unshift(values, items) == items \o values

\* values.push(item) for each item, in order.
push(values, items) == values \o items

\* No repeat is ever refused.
alreadySuppliedNever(option, options) == FALSE

\* option.single && Object.prototype.hasOwnProperty.call(options, key)
alreadySupplied(option, options) == option.single /\ options[option.key] # Absent

\* evaluateArgument(bound): the value it returns and the result after it.
evaluateArgument(bound, res) ==
    LET option == bound.option
        argument == bound.argument
        key == option.key
        about == bound.parsed.id
        helped == IF option.help /\ Truthy(argument.value) THEN requestHelp(res) ELSE res
        invalid == IF option.hasValidator /\ (argument.hasValues \/ argument.value # Undefined)
                   THEN ValidationError(option, argument, about) ELSE NoError
        current == helped.options[key]
        values == IF current.t = "array" THEN current.v ELSE <<>>
    IN  IF bound.error # NoError THEN [ok |-> FALSE, res |-> reportError(res, bound.error)]
        ELSE IF option = NoOption THEN [ok |-> FALSE, res |-> res]
        ELSE IF ~argument.defined THEN [ok |-> FALSE, res |-> res]
        ELSE IF option.hasValidator /\ ~argument.hasValues /\ argument.value = Undefined THEN [ok |-> FALSE, res |-> helped]
        ELSE IF invalid # NoError THEN [ok |-> FALSE, res |-> reportError(helped, invalid)]
        ELSE IF option.multiple # "false"
        THEN IF argument.hasValues
             THEN [ok |-> TRUE, res |-> [helped EXCEPT !.options[key] = Arr(push(values, argument.values))]]
             ELSE IF argument.value.t \in {"string", "number"}
             THEN [ok |-> TRUE, res |-> [helped EXCEPT !.options[key] = Arr(push(values, <<argument.value>>))]]
             ELSE [ok |-> FALSE, res |-> [helped EXCEPT !.options[key] = Arr(values)]]
        ELSE IF argument.hasValues
        THEN [ok |-> FALSE, res |-> reportError(helped, ParseError("multiple values", about))]
        ELSE IF argument.value # Undefined
        THEN IF alreadySupplied(option, helped.options)
             THEN [ok |-> FALSE, res |-> reportOptionError(helped, option, ParseError("already supplied", about))]
             ELSE [ok |-> TRUE, res |-> [helped EXCEPT !.options[key] = argument.value]]
        ELSE [ok |-> FALSE, res |-> helped]

\* One iteration of the loop over boundArguments.
EvaluateArgument ==
    /\ pc = "evaluate"
    /\ evalIndex <= Len(boundArguments)
    /\ LET e == evaluateArgument(boundArguments[evalIndex], result)
       IN  /\ result' = e.res
           /\ ok' = (ok /\ e.ok)
    /\ evalIndex' = evalIndex + 1
    /\ UNCHANGED <<settings, revision, commandLine, shareVars, execVars, pc, step, index, thrown, argv, bindVars>>

\* A selection that takes the first surviving group whatever the default.
selectOptionGroupFirst(g, defaultGroup) ==
    IF g.defined /\ Len(g.list) > 0 THEN g.list[1] ELSE defaultGroup

selectOptionGroup(g, defaultGroup) ==
    IF g.defined /\ Len(g.list) > 0
    THEN IF defaultGroup # "" /\ defaultGroup \in Range(g.list) THEN defaultGroup ELSE g.list[1]
    ELSE defaultGroup

RECURSIVE getDefaultGroup(_, _)
getDefaultGroup(ix, scope) ==
    IF ix.defaultGroup[scope] # "" THEN ix.defaultGroup[scope]
    ELSE IF scope # "root" THEN getDefaultGroup(ix, Parent(scope)) ELSE ""

\* A lookup that returns every option whatever the group.
RECURSIVE getOptionsOfAnyGroup(_, _, _)
getOptionsOfAnyGroup(ix, scope, group) ==
    IF scope # "root" THEN ix.options[scope] \o getOptionsOfAnyGroup(ix, Parent(scope), group) ELSE ix.options[scope]

\* Resolver._getOptions(group, own = false): the scope's options visible
\* in the group, then the parent's.
RECURSIVE getOptions(_, _, _)
getOptions(ix, scope, group) ==
    LET own == IF group = "" THEN SelectSeq(ix.options[scope], LAMBDA o : Len(o.groups) = 0)
               ELSE IF group # "*" THEN SelectSeq(ix.options[scope], LAMBDA o : Len(o.groups) = 0 \/ group \in Range(o.groups))
               ELSE ix.options[scope]
    IN  IF scope # "root" THEN own \o getOptions(ix, Parent(scope), group) ELSE own

getDefaultOptions(ix, scope, group) == SelectSeq(getOptions(ix, scope, group), LAMBDA o : o.hasDefaultValue)

getRequiredOptions(ix, scope, group) == SelectSeq(getOptions(ix, scope, group), LAMBDA o : o.required)

\* A default stored as the callback returned it.
defaultStoredAsIs(o, d) == d

\* The value fillDefaultValues stores for the default d of option o: an
\* array for a multiple option, one value otherwise; Absent when it stores
\* nothing.
defaultStored(o, d) ==
    IF o.multiple # "false"
    THEN IF d.t = "array" THEN d
         ELSE IF d.t \in {"number", "string"} THEN Arr(<<d>>) ELSE Absent
    ELSE IF d.t = "array" THEN (IF Len(d.v) > 0 THEN d.v[1] ELSE Undefined) ELSE d

\* fillDefaultValues, over the default options from index i on: what it
\* returns and the result after it.  A defaultValue callback that throws
\* is reported; the earlier revision then returns false, the later one
\* goes on with the next option.
RECURSIVE fillDefaultValues(_, _, _)
fillDefaultValues(opts, i, res) ==
    IF i > Len(opts) THEN [ok |-> TRUE, res |-> res]
    ELSE LET o == opts[i]
             d == o.defaultValue
             stored == defaultStored(o, d)
         IN  IF o.hasDefaultValue /\ res.options[o.key] = Absent
             THEN IF d = Throws
                  THEN IF revision = "earlier"
                       THEN [ok |-> FALSE, res |-> reportError(res, PlainError("defaultValue threw", 0))]
                       ELSE fillDefaultValues(opts, i + 1, reportError(res, PlainError("defaultValue threw", 0)))
                  ELSE fillDefaultValues(opts, i + 1,
                           IF d # Undefined /\ stored # Absent THEN [res EXCEPT !.options[o.key] = stored] ELSE res)
             ELSE fillDefaultValues(opts, i + 1, res)

\* The last required option without a value.
MissingRequiredLast(opts, options) ==
    LET missing == {i \in 1..Len(opts) : opts[i].required /\ options[opts[i].key] = Absent}
    IN  IF missing = {} THEN NoOption ELSE opts[CHOOSE i \in missing : \A j \in missing : i >= j]

\* validateRequiredValues: the first required option without a value,
\* NoOption when there is none.
MissingRequired(opts, options) ==
    LET missing == {i \in 1..Len(opts) : opts[i].required /\ options[opts[i].key] = Absent}
    IN  IF missing = {} THEN NoOption ELSE opts[CHOOSE i \in missing : \A j \in missing : i <= j]

\* new CommandLineParseError(`Option '${parameterName}' is required.`, true)
RequiredError(option) == [ParseError("required", 0) EXCEPT !.option = option.key]

\* The tail of evaluate: the group, the defaults, the required options,
\* the command, and the returned ParsedCommandLine.  The earlier revision
\* runs the two passes while `ok`, the later one while no error is set.
EvaluateReturn ==
    /\ pc = "evaluate"
    /\ evalIndex > Len(boundArguments)
    /\ LET group == selectOptionGroup(groups, getDefaultGroup(index, resolver))
           r1 == [result EXCEPT !.group = group]
           runFill == IF revision = "earlier" THEN ok ELSE r1.error = NoError
           filled == IF runFill THEN fillDefaultValues(getDefaultOptions(index, resolver, group), 1, r1)
                     ELSE [ok |-> FALSE, res |-> r1]
           runRequired == IF revision = "earlier" THEN filled.ok ELSE filled.res.error = NoError
           missing == IF runRequired THEN MissingRequired(getRequiredOptions(index, resolver, group), filled.res.options) ELSE NoOption
           r2 == IF missing # NoOption THEN reportError(filled.res, RequiredError(missing)) ELSE filled.res
           ok2 == ok /\ filled.ok /\ missing = NoOption
           head == IF boundCommand # <<>> THEN boundCommand[1].command ELSE ""
       IN  /\ ok' = ok2
           /\ result' = [r2 EXCEPT !.command = IF revision = "earlier"
                                                THEN IF ok2 /\ ~Truthy(r2.help) /\ r2.error = NoError THEN head ELSE ""
                                                ELSE head]
    /\ pc' = "done"
    /\ UNCHANGED <<settings, revision, commandLine, shareVars, execVars, step, index, thrown, argv, bindVars, evalIndex>>

Next ==
    \/ Register
    \/ Parse
    \/ BindNamedArgument
    \/ BindNamedReturn
    \/ BindPositionalArgument
    \/ BindPositionalReturn
    \/ BindFreeArgument
    \/ BindReturn
    \/ EvaluateArgument
    \/ EvaluateReturn

Spec == Init /\ [][Next]_vars

\* The same program on the configurations of GroupSettings.
SpecGroups == InitGroups /\ [][Next]_vars

\* The same program on the configurations of AliasSettings.  The program is
\* sequential: a step that can be taken is taken.
SpecAlias == InitAlias /\ [][Next]_vars /\ WF_vars(Next)

\* The same program on the configurations of TreeSettings.
SpecTree == InitTree /\ [][Next]_vars

\* Configurations whose options narrow the groups, for a CommandLine that
\* serves several parses.
SharedSettings == {"groups", "samepos", "overlap"}

InitShared == InitOf(SharedSettings) /\ NoExec

\* parse(args) is called again on the CommandLine that has already served
\* a parse: bind and evaluate start on fresh locals, the resolver is the
\* one the earlier parses used.  The command line is a short one or the
\* first one again.
ParseAgain ==
    /\ pc = "done"
    /\ parses < MaxParses
    /\ \E line \in CommandLines(settings) :
          /\ Len(line.args) <= MaxBetween \/ line.args = (IF parses = 0 THEN commandLine ELSE firstParse.line)
          /\ commandLine' = line.args
          /\ argv' = WithIds(line.parsedArguments)
          /\ parsedArguments' = WithIds(line.parsedArguments)
    /\ firstParse' = IF parses = 0 THEN [line |-> commandLine, result |-> result] ELSE firstParse
    /\ parses' = parses + 1
    /\ unboundArguments' = <<>>
    /\ freeArguments' = <<>>
    /\ position' = 0
    /\ usedPositions' = {}
    /\ boundArguments' = <<>>
    /\ boundCommand' = <<>>
    /\ groups' = NoGroups
    /\ resolver' = "root"
    /\ bindCommands' = index.hasCommands["root"]
    /\ restOption' = NoOption
    /\ evalIndex' = 1
    /\ ok' = TRUE
    /\ result' = InitResult
    /\ pc' = "named"
    /\ UNCHANGED <<settings, revision, step, index, thrown, execVars>>

NextShared == Next \/ ParseAgain

(***************************************************************************)
(* parseAndExecute.  The two revisions of CommandLine go with the two      *)
(* revisions of evaluate: the earlier one hands the result to the exec of  *)
(* result.command or to the top-level exec, the later one to execute().    *)
(***************************************************************************)
\* settings.auto: false (or left out), "print", true.
Autos == {"false", "print", "true"}

\* The callbacks a configuration declares; preExec and postExec are
\* declared together.
CallbackSets ==
    {[preExec |-> b, exec |-> e, command |-> c, postExec |-> b] : b \in BOOLEAN, e \in Behaviours, c \in Behaviours}

\* The context objects a caller hands to parseAndExecute.
Contexts == {"context", "other"}

\* parsed.error = "An error occurred."
CallbackError == [kind |-> "callback", about |-> 0, option |-> "", help |-> FALSE, status |-> 0]

\* The status an exec callback sets along with help or an error.
CallbackStatus == 1234

\* The exec callback of a command, "" when it declares none.
ExecOf(command) == IF command = "z" THEN callbacks.command ELSE ""

\* What parseAndExecute works on: the result object, the callbacks that
\* ran, the streams, and the calls of process.exit.  process.exit does not
\* return: `exited` ends the call.
Run == [result |-> result, handled |-> handled, invoked |-> invoked, output |-> output, exits |-> exits, exited |-> FALSE]

\* printError(error) writes to stderr, printHelp(commandPath) to stdout.
printed(r) ==
    [r EXCEPT !.output = @ \o (IF r.result.error # NoError THEN <<"stderr">> ELSE <<>>)
                           \o (IF Truthy(r.result.help) THEN <<"stdout">> ELSE <<>>),
              !.handled = TRUE]

\* process.exit(result.status)
exit(r) == [r EXCEPT !.exits = Append(@, r.result.status), !.exited = TRUE]

\* An exit flag that is set for every truthy `auto`.
exitsWhenTruthy(a) == a # "false"

\* auto === true
exitsWhen(a) == a = "true"

\* CommandLine._handleResult(result, exit) of the earlier revision.
handleResult(r, exitFlag) ==
    LET r1 == IF ~r.handled /\ (r.result.error # NoError \/ Truthy(r.result.help)) THEN printed(r) ELSE r
    IN  IF r1.handled /\ exitFlag THEN exit(r1) ELSE r1

\* CommandLine._printResult(result) of the later revision: a container
\* that is given no command asks for help.
printResult(r) ==
    LET r1 == IF container /\ r.result.command = "" /\ ~Truthy(r.result.help) THEN [r EXCEPT !.result.help = Bool(TRUE)] ELSE r
    IN  IF r1.result.error # NoError \/ Truthy(r1.result.help) THEN printed(r1) ELSE r1

\* exec(result, context): the callback sees the options object and the
\* context, and may set help, or an error, and a status.
invoke(r, name, behaviour, ctx) ==
    LET called == [r EXCEPT !.invoked = Append(@, [callback |-> name, options |-> r.result.options, context |-> ctx])]
    IN  CASE behaviour = "help" -> [called EXCEPT !.result.help = Bool(TRUE), !.result.status = CallbackStatus]
          [] behaviour = "error" -> [called EXCEPT !.result.error = CallbackError, !.result.status = CallbackStatus]
          [] OTHER -> called

\* A guard that lets every result through to the callbacks.
runsCallbacksAlways(r) == TRUE

\* The guard of parseAndExecute (earlier revision: result.handled) and of
\* execute (later revision: handled, error, help).
runsCallbacks(r) ==
    IF revision = "earlier" THEN ~r.handled
    ELSE ~r.handled /\ r.result.error = NoError /\ ~Truthy(r.result.help)

\* An exec that is always the top-level one.
pickExecTopLevel(r) == [name |-> "", behaviour |-> callbacks.exec]

\* The exec that parseAndExecute of the earlier revision picks: that of
\* result.command when it has one, else the top-level exec.
pickExec(r) ==
    IF r.result.command # "" /\ ExecOf(r.result.command) # ""
    THEN [name |-> r.result.command, behaviour |-> ExecOf(r.result.command)]
    ELSE [name |-> "", behaviour |-> callbacks.exec]

\* _invokePreExec, _invokeExec, _invokePostExec of the later revision.
invokePreExec(r, ctx) ==
    IF ~r.handled /\ callbacks.preExec THEN invoke(r, "preExec", "clean", ctx) ELSE r

invokeExec(r, ctx) ==
    IF ~r.handled /\ callbacks.exec # "" THEN [invoke(r, "", callbacks.exec, ctx) EXCEPT !.handled = TRUE] ELSE r

invokePostExec(r, ctx) ==
    IF r.handled /\ callbacks.postExec THEN invoke(r, "postExec", "clean", ctx) ELSE r

\* Resolver.execute of the later revision: preExec, exec, postExec.
resolverExecute(r, ctx) == invokePostExec(invokeExec(invokePreExec(r, ctx), ctx), ctx)

\* Command.execute of the later revision: the command's exec when it has
\* one, else the execution of the command line.
commandExecute(r, command, ctx) ==
    IF ExecOf(command) # ""
    THEN [invoke(r, command, ExecOf(command), ctx) EXCEPT !.handled = TRUE]
    ELSE resolverExecute(r, ctx)

\* The tail of _parseCore(args, this.auto || "print") (earlier revision)
\* and of parse(args) (later revision): print, mark handled, exit.
parseTail(r) ==
    IF revision = "earlier"
    THEN handleResult(r, exitsWhen(IF auto = "false" THEN "print" ELSE auto))
    ELSE LET r1 == IF auto # "false" THEN printResult(r) ELSE r
         IN  IF r1.handled /\ exitsWhen(auto) THEN exit(r1) ELSE r1

\* parseAndExecute after the parse (earlier revision), execute(parsed,
\* context) (later revision).
execute(r, ctx) ==
    IF revision = "earlier"
    THEN IF ~runsCallbacks(r) \/ pickExec(r).behaviour = "" THEN r
         ELSE LET r1 == handleResult(invoke(r, pickExec(r).name, pickExec(r).behaviour, ctx), exitsWhen(auto))
              IN  IF r1.exited THEN r1 ELSE [r1 EXCEPT !.handled = TRUE]
    ELSE LET r1 == IF runsCallbacks(r)
                   THEN printResult(IF r.result.command # "" THEN commandExecute(r, r.result.command, ctx)
                                    ELSE resolverExecute(r, ctx))
                   ELSE r
         IN  IF r1.handled /\ exitsWhen(auto) THEN exit(r1) ELSE r1

\* The parse of parseAndExecute returns: the result is printed, marked
\* handled and the process exited as `auto` says.
ParseReturn ==
    /\ pc = "done"
    /\ LET r == parseTail(Run)
       IN  /\ result' = r.result
           /\ handled' = r.handled
           /\ output' = r.output
           /\ exits' = r.exits
           /\ pc' = IF r.exited THEN "exited" ELSE "parsed"
    /\ UNCHANGED <<settings, revision, commandLine, shareVars, auto, callbacks, context, container, invoked, step, index, thrown, argv, bindVars, evalIndex, ok>>

\* The rest of parseAndExecute(args, context).
Execute ==
    /\ pc = "parsed"
    /\ LET r == execute(Run, context)
       IN  /\ result' = r.result
           /\ handled' = r.handled
           /\ invoked' = r.invoked
           /\ output' = r.output
           /\ exits' = r.exits
           /\ pc' = IF r.exited THEN "exited" ELSE "returned"
    /\ UNCHANGED <<settings, revision, commandLine, shareVars, auto, callbacks, context, container, step, index, thrown, argv, bindVars, evalIndex, ok>>

InitExec ==
    /\ InitOf(ExecSettings)
    /\ auto \in Autos
    /\ callbacks \in CallbackSets
    /\ context \in Contexts
    /\ container \in (IF revision = "later" THEN BOOLEAN ELSE {FALSE})

NextExec == Next \/ ParseReturn \/ Execute

\* new CommandLine(settings).parseAndExecute(args, context)
SpecExec == InitExec /\ [][NextExec]_vars

\* One CommandLine that serves several parses.
SpecShared == InitShared /\ [][NextShared]_vars

(***************************************************************************)
(* Properties                                                              *)
(***************************************************************************)
\* The bound arguments bind has produced so far, by index.
Bound == 1..Len(boundArguments)

\* The bound argument at i belongs to an option that declares groups and
\* has passed its conversion, so bind has applied its group restriction.
Narrowing(i) ==
    /\ boundArguments[i].option # NoOption
    /\ Len(boundArguments[i].option.groups) > 0
    /\ boundArguments[i].error.kind \in {"", "conflicts"}

\* The groups of the first narrowing option that every narrowing option up
\* to index i belongs to, in the first option's order.
SurvivingGroups(i) ==
    LET upTo == {j \in 1..i : Narrowing(j)}
        first == CHOOSE j \in upTo : \A k \in upTo : j <= k
    IN  SelectSeq(boundArguments[first].option.groups,
                  LAMBDA g : \A j \in upTo : g \in Range(boundArguments[j].option.groups))

\* C1: the surviving group set is the intersection of the groups of every
\* bound option that declares groups, in the first such option's order,
\* and the 'conflicts' error sits exactly on the bound arguments at which
\* that intersection is empty, so on none before the set was emptied.
C1_SurvivingGroupsAreTheIntersection ==
    LET narrowing == {i \in Bound : Narrowing(i)}
    IN  /\ narrowing = {} => groups = NoGroups
        /\ narrowing # {} => groups = Groups(SurvivingGroups(CHOOSE i \in narrowing : \A j \in narrowing : j <= i))
        /\ \A i \in narrowing : (boundArguments[i].error.kind = "conflicts") <=> (SurvivingGroups(i) = <<>>)
        /\ \A i \in Bound \ narrowing : boundArguments[i].error.kind # "conflicts"

\* C1: --gab {a,b} and --gbc {b,c} left [b], then --gc {c} emptied the set
\* and alone carries the error.
C1_Witness ==
    /\ pc = "done"
    /\ Len(boundArguments) = 3
    /\ boundArguments[1].option.key = "gab" /\ boundArguments[1].error = NoError
    /\ boundArguments[2].option.key = "gbc" /\ boundArguments[2].error = NoError
    /\ boundArguments[3].option.key = "gc" /\ boundArguments[3].error.kind = "conflicts"
    /\ groups = Groups(<<>>)

\* The options the settings declare.
Declared == Range(OptionsOf(settings))

\* Two declared options of one scope share a position, both declare groups
\* and the groups are disjoint.
DisjointCandidates(p, q) ==
    /\ p # q /\ p.scope = q.scope
    /\ p.position # NoPosition /\ p.position = q.position
    /\ Len(p.groups) > 0 /\ Len(q.groups) > 0
    /\ Range(p.groups) \cap Range(q.groups) = {}

\* C2: where two options with disjoint groups are candidates for one
\* position, a bare token at that position is bound to the candidate whose
\* groups an earlier named option has selected, and an 'ambiguous' error
\* is recorded when no named option has narrowed the groups.
C2_CandidatesDisambiguatedByGroups ==
    \A p \in Declared : \A q \in Declared :
        (DisjointCandidates(p, q) /\ pc \in {"threw", "done"})
        => /\ pc = "done"
           /\ \A t \in Range(argv) :
                ~t.parameter.present
                => IF \E i \in Bound : Narrowing(i) /\ boundArguments[i].parsed.parameter.present
                   THEN \E i \in Bound :
                            /\ boundArguments[i].parsed.id = t.id
                            /\ boundArguments[i].option \in {p, q}
                            /\ boundArguments[i].error = NoError
                   ELSE \E i \in Bound : boundArguments[i].error.kind = "ambiguous"

\* C3: construction rejects an option only when an option already at its
\* position lacks groups, or it lacks groups itself, or the two overlap;
\* options with disjoint groups share the position.
C3_DisjointGroupsShareAPosition ==
    (pc = "threw" /\ thrown \in {"duplicatePosition", "duplicatePositionWithGroups"})
    => LET option == BuildSteps(settings)[step].option
       IN  \E existing \in Range(OptionsForPosition(index, option.scope, option.position)) :
               \/ Len(existing.groups) = 0
               \/ Len(option.groups) = 0
               \/ Range(existing.groups) \cap Range(option.groups) # {}

\* bind has finished its named phase.
NamedDone == pc \in {"positional", "free", "evaluate", "done"}

\* The bound argument of the token with the given id, NoParsed's when
\* there is none.
BoundOf(id) ==
    IF \E i \in Bound : boundArguments[i].parsed.id = id
    THEN boundArguments[CHOOSE i \in Bound : boundArguments[i].parsed.id = id]
    ELSE BoundArgument(NoParsed, NoOption, NoValue, NoError)

\* The token with the given id was bound, as an argument or as a command.
IsBound(id) ==
    \/ \E i \in Bound : boundArguments[i].parsed.id = id
    \/ \E k \in 1..Len(boundCommand) : boundCommand[k].parsed.id = id

\* The named token at i resolved to a string or number option and carries
\* no inline value.
AwaitsValue(i) ==
    /\ argv[i].parameter.present
    /\ ~argv[i].argument.present
    /\ BoundOf(i).option # NoOption
    /\ BoundOf(i).option.type \in {"string", "number"}

\* C4: a string or number option without an inline value takes the token
\* that follows it exactly when that token has no parameter descriptor;
\* the token taken is bound nowhere else; otherwise the option gets
\* 'expects a value' and the following token is bound on its own.
C4_LookAheadTakesOnlyBareTokens ==
    NamedDone =>
    \A i \in 1..Len(argv) :
        AwaitsValue(i) =>
        IF i < Len(argv) /\ ~argv[i + 1].parameter.present
        THEN /\ BoundOf(i).error.kind # "expects a value"
             /\ BoundOf(i).error = NoError
                => BoundOf(i).argument.value =
                     IF BoundOf(i).option.type = "string" THEN Str(argv[i + 1].argument.value)
                     ELSE Num(parseInt(argv[i + 1].argument.value))
             /\ ~IsBound(i + 1)
        ELSE /\ BoundOf(i).error.kind = "expects a value"
             /\ i < Len(argv) /\ pc \in {"evaluate", "done"} => IsBound(i + 1)

\* C4: --b took the bare token after it, and a second valueless option
\* followed by a named token got the error.
C4_Witness ==
    /\ pc = "done"
    /\ Len(argv) = 3
    /\ AwaitsValue(1) /\ ~argv[2].parameter.present
    /\ BoundOf(1).error = NoError /\ BoundOf(1).argument.value = Str(argv[2].argument.value)
    /\ ~IsBound(2)
    /\ IsBound(3)

\* A sequence back to front.
RECURSIVE Reverse(_)
Reverse(seq) == IF seq = <<>> THEN <<>> ELSE Append(Reverse(Tail(seq)), Head(seq))

\* The command chain in the order its entries were made, outermost first.
Chain == Reverse(boundCommand)

\* The scope in force when the k-th entry of the chain was made: the last
\* command matched before it, the root when there is none.
ScopeBefore(k) ==
    LET matched == {j \in 1..(k - 1) : Chain[j].command # ""}
    IN  IF matched = {} THEN "root" ELSE Chain[CHOOSE j \in matched : \A m \in matched : m <= j].command

\* The commands the settings declare directly under a scope with the name
\* a token spells.
CommandsNamed(scope, text) ==
    {c \in Range(CommandsOf(settings)) : Parent(c) = scope /\ toUpperCase(c) = toUpperCase(text)}

\* C5: a bare token is matched against the commands of the current scope
\* only; a match makes that command's resolver current and heads the chain
\* with the previous head as parent, so the final resolver is the innermost
\* matched command's.
C5_CommandsDescendScopeByScope ==
    NamedDone =>
    /\ \A k \in 1..Len(Chain) :
          IF CommandsNamed(ScopeBefore(k), Chain[k].parsed.text) # {}
          THEN Chain[k].command \in CommandsNamed(ScopeBefore(k), Chain[k].parsed.text)
          ELSE Chain[k].command = "" /\ Chain[k].error.kind = "unrecognized command"
    /\ resolver = ScopeBefore(Len(Chain) + 1)

\* C5: [w, v] gave the chain v with parent w and v's resolver.
C5_Witness ==
    /\ pc = "done"
    /\ Len(boundCommand) = 2
    /\ boundCommand[1].command = "v" /\ boundCommand[1].parsed.text = "v"
    /\ boundCommand[2].command = "w" /\ boundCommand[2].parsed.text = "w"
    /\ resolver = "v"

\* C6: once a bare token has failed to match a command, the descent has
\* stopped: no later token is bound as a command, so the entry that holds
\* the error is the head of the command chain.
C6_ErrorEntryHeadsTheChain ==
    \A k \in 1..Len(boundCommand) : boundCommand[k].error # NoError => k = 1

\* The rest option visible from the resolver bind ended with.
DeclaredRest == getRest(index, resolver)

\* C7: when a rest option is declared, every bare token left over by the
\* named and positional phases is bound to it, and none of them is given
\* an 'unrecognized' error.
C7_LeftoverTokensGoToRest ==
    (pc \in {"evaluate", "done"} /\ DeclaredRest # NoOption)
    => \A i \in Bound :
          (~boundArguments[i].parsed.parameter.present /\ boundArguments[i].option.position = NoPosition)
          => /\ boundArguments[i].option = DeclaredRest
             /\ boundArguments[i].error.kind # "unrecognized"

\* The ParsedArgumentValue a bound argument was made from: the token's own
\* inline value, else the value of the bare token that follows it.
Source(b) ==
    IF b.parsed.argument.present THEN b.parsed.argument
    ELSE IF b.parsed.id < Len(argv) /\ ~argv[b.parsed.id + 1].parameter.present
         THEN argv[b.parsed.id + 1].argument
         ELSE NoArgument

\* The elements of a comma list, as strings.
Split(argument) == [k \in 1..Len(argument.values) |-> Str(argument.values[k])]

\* The elements the successful occurrences of option o from index i on
\* contribute when every comma list is split.
RECURSIVE SplitFrom(_, _)
SplitFrom(o, i) ==
    IF i > Len(boundArguments) THEN <<>>
    ELSE LET b == boundArguments[i]
             own == IF b.option = o /\ b.error = NoError
                    THEN IF Source(b).hasValues THEN Split(Source(b)) ELSE <<Str(Source(b).value)>>
                    ELSE <<>>
         IN  own \o SplitFrom(o, i + 1)

\* The same, when only a 'comma-separated' option splits its lists.
RECURSIVE StoredFrom(_, _)
StoredFrom(o, i) ==
    IF i > Len(boundArguments) THEN <<>>
    ELSE LET b == boundArguments[i]
             own == IF b.option = o /\ b.error = NoError
                    THEN IF o.multiple = "comma-separated" /\ Source(b).hasValues
                         THEN Split(Source(b)) ELSE <<Str(Source(b).value)>>
                    ELSE <<>>
         IN  own \o StoredFrom(o, i + 1)

\* Option o was given at least once without an error.
Supplied(o) == \E i \in Bound : boundArguments[i].option = o /\ boundArguments[i].error = NoError

SingleValuedList(i) ==
    /\ boundArguments[i].option # NoOption
    /\ boundArguments[i].option.type \in {"string", "number"}
    /\ boundArguments[i].option.multiple = "false"
    /\ ~boundArguments[i].parsed.parameter.passthru
    /\ Source(boundArguments[i]).hasValues
    /\ Len(Source(boundArguments[i]).values) > 1

Rejected(i) ==
    /\ boundArguments[i].error = NoError
    /\ boundArguments[i].option.hasValidator
    /\ ValidationError(boundArguments[i].option, boundArguments[i].argument, boundArguments[i].parsed.id) # NoError

\* The bound argument at i was bound without error and passes its
\* option's validator.
Accepted(i) == boundArguments[i].error = NoError /\ ~Rejected(i)

\* The bound argument at i repeats an option declared single that an
\* earlier accepted bound argument has given a value.
Repeats(i) ==
    /\ Accepted(i)
    /\ boundArguments[i].option.single
    /\ \E j \in 1..(i - 1) : boundArguments[j].option = boundArguments[i].option /\ Accepted(j)

\* The bound argument at i fails: bind gave it an error, its validator
\* rejects it, or it repeats an option declared single.
Failing(i) == boundArguments[i].error # NoError \/ Rejected(i) \/ Repeats(i)

\* The indexes of the failing bound arguments.
Failures == {i \in Bound : Failing(i)}

\* The error evaluate reports for the failing bound argument at i.
FailureOf(i) ==
    LET b == boundArguments[i]
    IN  IF b.error # NoError THEN b.error
        ELSE IF Rejected(i) THEN ValidationError(b.option, b.argument, b.parsed.id)
        ELSE OptionError(b.option, ParseError("already supplied", b.parsed.id))

\* A bound argument belongs to the help option.
HelpSupplied == \E i \in Bound : boundArguments[i].option.help

\* The head of the command chain holds an unrecognized-command error.
CommandFailed == boundCommand # <<>> /\ boundCommand[1].error # NoError

AsksForHelp(h) ==
    /\ boundArguments[h].option.help
    /\ boundArguments[h].error = NoError
    /\ boundArguments[h].argument.value = Bool(TRUE)

\* No declared option is required.
NothingRequired == \A o \in Declared : ~o.required

\* No declared option has a defaultValue callback that throws.
NoDefaultThrows == \A o \in Declared : o.defaultValue # Throws

\* The result shows help and no error.
HelpShown == result.help = Bool(TRUE) /\ result.error = NoError /\ result.status = 0

Constructed == step > Len(BuildSteps(settings))

\* C12 as stated: for a configuration that was constructed, bind followed
\* by evaluate never throws, whatever the token list.
C12_BindAndEvaluateNeverThrow == Constructed => pc # "threw"

\* The first required option, visible in the selected group, that has no
\* value in the result's options; NoOption when there is none.
FirstMissing ==
    LET opts == getRequiredOptions(index, resolver, result.group)
        missing == {i \in 1..Len(opts) : result.options[opts[i].key] = Absent}
    IN  IF missing = {} THEN NoOption ELSE opts[CHOOSE i \in missing : \A j \in missing : i <= j]

\* The result reports that the first missing required option is required.
RequiredReported == result.error = RequiredError(FirstMissing) /\ result.help = Bool(TRUE)

AfterArguments == pc = "evaluate" /\ pc' = "done"

\* C14: a default value is stored only for a key that is absent when all
\* arguments have been evaluated; a key that has a value keeps it; and what
\* is stored for a multiple option is the array default as it is, or the
\* scalar default as a one-element array.
C14_DefaultsFillOnlyAbsentKeys ==
    [][AfterArguments =>
         \A k \in Keys :
            /\ result.options[k] # Absent => result'.options[k] = result.options[k]
            /\ (result.options[k] = Absent /\ result'.options[k] # Absent)
               => \E o \in Declared :
                     /\ o.key = k /\ o.hasDefaultValue
                     /\ o.multiple # "false"
                        => result'.options[k] = IF o.defaultValue.t = "array" THEN o.defaultValue
                                                ELSE Arr(<<o.defaultValue>>)]_vars

\* C14: b was supplied and keeps its value; d and dc were not, and hold the
\* scalar default as a one-element array and the array default as it is.
C14_Witness ==
    /\ pc = "done"
    /\ settings = "defaults"
    /\ \E i \in Bound : boundArguments[i].option.key = "b" /\ boundArguments[i].parsed.text = "--b=e"
    /\ result.options["b"] = Str("e")
    /\ result.options["d"] = Arr(<<Str("e")>>)
    /\ result.options["dc"] = Arr(<<Str("e"), Str("f")>>)

\* The surviving set of bind is present and not empty.
Survivors == groups.defined /\ groups.list # <<>>

\* C15: the result's group is the default group when the surviving set is
\* not empty and holds it, else the first element of the surviving set when
\* that is not empty, else the default group, undefined when none is
\* declared.
C15_SelectedGroup ==
    pc = "done" =>
    LET default == DefaultGroupOf(settings)
    IN  /\ (Survivors /\ default # "" /\ default \in Range(groups.list)) => result.group = default
        /\ (Survivors /\ ~(default # "" /\ default \in Range(groups.list))) => result.group = groups.list[1]
        /\ ~Survivors => result.group = default

\* C15: the surviving set is [b, c] and the default group c, not the first
\* element b, is selected.
C15_Witness ==
    /\ pc = "done"
    /\ groups.defined /\ groups.list = <<"b", "c">>
    /\ DefaultGroupOf(settings) = "c"
    /\ result.group = "c"

\* C15: no default group is declared, the surviving set is [b], and b is
\* selected.
C15_NoDefaultWitness ==
    /\ pc = "done"
    /\ groups.defined /\ groups.list = <<"b">>
    /\ DefaultGroupOf(settings) = ""
    /\ result.group = "b"

\* The bound argument evaluate is looking at.
Current == boundArguments[evalIndex]

\* evaluate is at an accepted bound argument that gives one value to an
\* option that is not multiple and already has a value.
AtRepeat ==
    /\ pc = "evaluate" /\ evalIndex <= Len(boundArguments)
    /\ Accepted(evalIndex)
    /\ Current.option # NoOption /\ Current.option.multiple = "false"
    /\ Current.argument.defined /\ ~Current.argument.hasValues
    /\ Current.argument.value # Undefined
    /\ result.options[Current.option.key] # Absent

\* reportError would record an error now.
Recordable == result.error = NoError /\ (revision = "earlier" => ~Truthy(result.help))

\* C16: when an option that is not multiple is given a value again, a
\* single option keeps its first value and the occurrence is reported as
\* 'already supplied' (through the option's error callback, and unless an
\* earlier report stands); an option that is not single takes the new
\* value and no error is recorded.
C16_RepeatedOption ==
    [][AtRepeat =>
         LET o == Current.option
         IN  IF o.single
             THEN /\ result'.options = result.options
                  /\ Recordable => result'.error = OptionError(o, ParseError("already supplied", Current.parsed.id))
             ELSE /\ result'.options[o.key] = Current.argument.value
                  /\ result'.error # NoError => result'.error = result.error]_vars

\* C16: --s=e --s=f for the single option s ends with s = e and the
\* 'already supplied' error of the second token.
C16_Witness ==
    /\ pc = "done"
    /\ Len(boundArguments) = 2
    /\ boundArguments[1].parsed.text = "--s=e" /\ boundArguments[2].parsed.text = "--s=f"
    /\ boundArguments[1].option.single
    /\ result.options["s"] = Str("e")
    /\ result.error = ParseError("already supplied", 2)

\* C16: --b=e --b=f for the option b, not single, ends with b = f and no
\* error about b (a required option is missing).
C16_LastValueWitness ==
    /\ pc = "done"
    /\ Len(boundArguments) = 2
    /\ boundArguments[1].parsed.text = "--b=e" /\ boundArguments[2].parsed.text = "--b=f"
    /\ ~boundArguments[1].option.single /\ ~boundArguments[1].option.hasValidator
    /\ result.options["b"] = Str("f")
    /\ result.error.kind = "required"

\* evaluate is at an accepted bound argument that gives a value or a list
\* of values to a multiple option.
AtOccurrence ==
    /\ pc = "evaluate" /\ evalIndex <= Len(boundArguments)
    /\ Accepted(evalIndex)
    /\ Current.option # NoOption /\ Current.option.multiple # "false"
    /\ Current.argument.defined
    /\ Current.argument.hasValues \/ Current.argument.value.t \in {"string", "number"}

\* The elements stored under key k, none when the key is absent.
Elements(options, k) == IF options[k].t = "array" THEN options[k].v ELSE <<>>

\* C17: each occurrence of a multiple option leaves under the option's key
\* an array made of the elements that were there, in their order, followed
\* by the occurrence's value or values; the first occurrence creates the
\* array; and no step over a bound argument removes or moves an element of
\* any array.
C17_OccurrencesAppend ==
    [][(pc = "evaluate" /\ evalIndex <= Len(boundArguments)) =>
         /\ AtOccurrence =>
               LET k == Current.option.key
                   new == IF Current.argument.hasValues THEN Current.argument.values
                          ELSE <<Current.argument.value>>
               IN  result'.options[k] = Arr(Elements(result.options, k) \o new)
         /\ \A k \in Keys :
               result.options[k].t = "array"
               => /\ result'.options[k].t = "array"
                  /\ Len(result'.options[k].v) >= Len(result.options[k].v)
                  /\ SubSeq(result'.options[k].v, 1, Len(result.options[k].v)) = result.options[k].v]_vars

\* C17: --d e --d=e,f stored e, then e,f after it.
C17_Witness ==
    /\ pc = "done"
    /\ Len(boundArguments) = 2
    /\ boundArguments[1].option.key = "d" /\ boundArguments[2].option.key = "d"
    /\ boundArguments[1].option.multiple = "true"
    /\ result.options["d"] = Arr(<<Str("e"), Str("e,f")>>)

\* evaluate is at a bound argument whose value the option's validator
\* rejects.
AtRejected == pc = "evaluate" /\ evalIndex <= Len(boundArguments) /\ Rejected(evalIndex)

\* C18 as stated: when the validator rejects a value, nothing is stored for
\* the argument, and the error recorded is the validator's error passed
\* through the option's error callback when the option declares one.
C18_ValidatorErrorGoesThroughErrorHook ==
    [][AtRejected =>
         /\ result'.options = result.options
         /\ Recordable =>
               result'.error = OptionError(Current.option,
                                   ValidationError(Current.option, Current.argument, Current.parsed.id))]_vars

\* The bound arguments of boolean options.
Switches == {i \in Bound : boundArguments[i].option # NoOption /\ boundArguments[i].option.type = "boolean"}

\* The text given inline with the token of the bound argument at i, ""
\* when there is none.
Inline(i) ==
    LET argument == boundArguments[i].parsed.argument
    IN  IF argument.present /\ argument.hasValue THEN argument.value ELSE ""

\* The token of the bound argument at i carries the no- prefix.
Negated(i) == boundArguments[i].parsed.parameter.present /\ boundArguments[i].parsed.parameter.no

\* The bound argument at i was bound to the boolean v.
BindsTo(i, v) ==
    /\ boundArguments[i].error.kind # "expects a boolean"
    /\ boundArguments[i].error = NoError => boundArguments[i].argument.value = Bool(v)

\* C19 as stated: a boolean option binds true unless its inline value is
\* one of the falsy tokens, and then false; the no- prefix inverts that.
C19_BooleanIsTrueUnlessFalsy ==
    pc \in {"evaluate", "done"} =>
    \A i \in Switches :
        LET falsy == toUpperCase(Inline(i)) \in {"0", "F", "FALSE", "N", "NO"}
        IN  BindsTo(i, IF Negated(i) THEN falsy ELSE ~falsy)

\* C19 amended: a boolean option binds true when it has no inline value,
\* an empty one or a truthy one, and false when the inline value is a falsy
\* token; the no- prefix inverts that; any other inline value is an
\* 'expects a boolean' error and binds no value.
C19_BooleanIsTrueFalseOrAnError ==
    pc \in {"evaluate", "done"} =>
    \A i \in Switches :
        LET text == toUpperCase(Inline(i))
            falsy == text \in {"0", "F", "FALSE", "N", "NO"}
            accepted == text \in {"", "1", "-1", "T", "TRUE", "Y", "YES"}
        IN  IF accepted \/ falsy
            THEN BindsTo(i, IF Negated(i) THEN falsy ELSE ~falsy)
            ELSE /\ boundArguments[i].error.kind = "expects a boolean"
                 /\ ~boundArguments[i].argument.defined

\* C19: --a=maybe was refused, --no-a=0 bound true and --a=no bound false.
C19_Witness ==
    /\ pc = "done"
    /\ \E i \in Switches : Inline(i) = "maybe" /\ boundArguments[i].error.kind = "expects a boolean"
    /\ \E i \in Switches : Inline(i) = "0" /\ Negated(i) /\ boundArguments[i].argument.value = Bool(TRUE)
    /\ \E i \in Switches : Inline(i) = "no" /\ ~Negated(i) /\ boundArguments[i].argument.value = Bool(FALSE)

\* The bound argument at i belongs to a number option and the value given
\* to it, or an element of the list given to it, is no number.
NotANumber(i) ==
    LET b == boundArguments[i]
        given == Source(b)
    IN  /\ b.option # NoOption /\ b.option.type = "number"
        /\ given.present
        /\ IF given.hasValues /\ b.option.multiple = "comma-separated"
           THEN \E k \in 1..Len(given.values) : isNaN(given.values[k])
           ELSE given.hasValue /\ isNaN(given.value)

\* evaluate is at a bound argument of a number option whose value is no
\* number.
AtNotANumber == pc = "evaluate" /\ evalIndex <= Len(boundArguments) /\ NotANumber(evalIndex)

\* The bound argument at i is the only one of its option that bind gave a
\* value, and the option has no default.
OnlySource(i) ==
    /\ ~boundArguments[i].option.hasDefaultValue
    /\ \A j \in Bound : (j # i /\ boundArguments[j].option = boundArguments[i].option)
                            => boundArguments[j].error # NoError

\* A value that is no number is bound as an 'expects a number' error naming
\* its token and with no value, and leaves the option's key absent when
\* nothing else gives the option a value.
NotANumberIsAnError ==
    \A i \in Bound :
        NotANumber(i)
        => /\ boundArguments[i].error = ParseError("expects a number", boundArguments[i].parsed.id)
           /\ ~boundArguments[i].argument.defined
           /\ (pc = "done" /\ OnlySource(i)) => result.options[boundArguments[i].option.key] = Absent

Separators == {i \in 1..Len(argv) : argv[i].parameter.present /\ argv[i].parameter.passthru}

\* The raw arguments after position k of the command line.
After(k) == SubSeq(commandLine, k + 1, Len(commandLine))

\* The separator at token i stands at position k of the raw command line
\* and carries every raw argument after it, as written and in order.
CapturesAfter(i, k) ==
    /\ commandLine[k] = "--"
    /\ argv[i].argument.values = After(k)
    /\ i = Len(argv)

\* The values a bound argument carries, in order.
ValuesOf(b) == IF b.argument.hasValues THEN b.argument.values
               ELSE IF b.argument.defined THEN <<b.argument.value>> ELSE <<>>

\* C21: when a passthru option is declared, every raw argument after the
\* -- separator is carried by the separator token as written and in order,
\* the token is the last one (none of those arguments becomes an option,
\* a command, a response file or a positional argument), it binds to the
\* passthru option of the scope with those arguments as its values, and
\* a parse without error stores them under the passthru option's key.
C21_PassthruCapturesEverythingAfterSeparator ==
    \A i \in Separators :
        getPassthru(index, "root") # NoOption =>
            /\ \E k \in 1..Len(commandLine) : CapturesAfter(i, k)
            /\ pc \in {"positional", "free", "evaluate", "done"} =>
                  /\ BoundOf(i).option = getPassthru(index, resolver)
                  /\ argv[i].argument.values # <<>> =>
                        /\ BoundOf(i).error = NoError
                        /\ ValuesOf(BoundOf(i)) = [j \in 1..Len(argv[i].argument.values) |-> Str(argv[i].argument.values[j])]
            /\ pc = "done" /\ result.error = NoError /\ ~Truthy(result.help) /\ argv[i].argument.values # <<>> =>
                  result.options[getPassthru(index, resolver).key] = Arr(ValuesOf(BoundOf(i)))

\* C21 witness: on  e -- -a  the positional argument before the separator
\* binds by position and the -a after it is stored as passthru text.
C21_Witness ==
    /\ settings = "passthru" /\ pc = "done"
    /\ commandLine = <<"e", "--", "-a">>
    /\ result.error = NoError
    /\ result.options["x"] = Str("e")
    /\ result.options["p"] = Arr(<<Str("-a")>>)
    /\ result.options["a"] = Absent

\* C21 witness: a command name, a response file and a second separator
\* after the separator are all passthru text.
C21_AllKindsWitness ==
    /\ pc = "done" /\ result.error = NoError
    /\ \/ settings = "passcmd" /\ commandLine = <<"--", "z", "--">> /\ result.options["p"] = Arr(<<Str("z"), Str("--")>>) /\ result.commandName = ""
       \/ settings = "passthru" /\ commandLine = <<"--", "@f", "e">> /\ result.options["p"] = Arr(<<Str("@f"), Str("e")>>)

\* The options registered in a scope, as a set.
Registered(sc) == Range(index.options[sc])

\* The scope's own options that answer to a short name, a long name, a
\* key; and those at a position, in registration order.
OwnByShortName(sc, n) == {o \in Registered(sc) : o.shortName = n \/ n \in ShortAliases(o)}

OwnByLongName(sc, n) ==
    {o \in Registered(sc) : (o.longName # "" /\ normalizeName(o.longName, TRUE) = normalizeName(n, TRUE)) \/ normalizeName(n, TRUE) \in LongAliases(o)}

OwnByKey(sc, k) == {o \in Registered(sc) : o.key = k}

OwnByPosition(sc, p) == SelectSeq(index.options[sc], LAMBDA o : o.position = p)

\* The nearest scope among `holders`, from sc outwards; "" when neither sc
\* nor an ancestor is one.
RECURSIVE Nearest(_, _)
Nearest(sc, holders) ==
    IF sc \in holders THEN sc ELSE IF sc = "root" THEN "" ELSE Nearest(Parent(sc), holders)

\* The names, keys and positions the lookups are asked for.
ShortNames == {"a", "h", "q", "?", "u", "k", "B", "e"}

LongNames == {"a", "b", "B", "c", "x", "y", "q", "help", "usage", "nope", "d_c", "bee"}

Positions == {0, 1}

\* The one element of a set that has one.
TheOne(set) == CHOOSE o \in set : TRUE

\* C22: in every scope, fromShortName, fromLongName, fromPosition and get
\* return the scope's own match when it has one and otherwise that of the
\* nearest ancestor that has one (nothing when none has): a local
\* declaration shadows an inherited one, and an option declared only in an
\* ancestor is found from every descendant.
C22_LookupsReturnNearestDeclaration ==
    /\ \A n \in ShortNames :
          \E holders \in {{x \in Scopes : OwnByShortName(x, n) # {}}} : \A sc \in Scopes :
             \E h \in {Nearest(sc, holders)} :
                fromShortName(index, sc, n) = IF h = "" THEN NoOption ELSE TheOne(OwnByShortName(h, n))
    /\ \A n \in LongNames :
          \E holders \in {{x \in Scopes : OwnByLongName(x, n) # {}}} : \A sc \in Scopes :
             \E h \in {Nearest(sc, holders)} :
                fromLongName(index, sc, n) = IF h = "" THEN NoOption ELSE TheOne(OwnByLongName(h, n))
    /\ \A k \in Keys :
          \E holders \in {{x \in Scopes : OwnByKey(x, k) # {}}} : \A sc \in Scopes :
             \E h \in {Nearest(sc, holders)} :
                get(index, sc, k) = IF h = "" THEN NoOption ELSE TheOne(OwnByKey(h, k))
    /\ \A p \in Positions :
          \E holders \in {{x \in Scopes : OwnByPosition(x, p) # <<>>}} : \A sc \in Scopes :
             \E h \in {Nearest(sc, holders)} :
                fromPosition(index, sc, p) = IF h = "" THEN <<>> ELSE OwnByPosition(h, p)

\* C22 witness: the command w declares its own -a, b and position 0, which
\* shadow the top-level ones in w and in its sub-command v; the top-level c
\* is found from every command;  w -a  sets w's option.
C22_Witness ==
    /\ settings = "shadow" /\ pc = "done"
    /\ fromShortName(index, "root", "a").key = "a" /\ fromShortName(index, "w", "a").key = "q"
    /\ fromShortName(index, "v", "a").key = "q" /\ fromShortName(index, "z", "a").key = "a"
    /\ fromLongName(index, "v", "b").type = "number" /\ fromLongName(index, "z", "b").type = "string"
    /\ get(index, "w", "b").scope = "w" /\ get(index, "root", "b").scope = "root"
    /\ fromPosition(index, "v", 0)[1].key = "y" /\ fromPosition(index, "z", 0)[1].key = "x"
    /\ \A sc \in Scopes : get(index, sc, "c").scope = "root" /\ fromLongName(index, sc, "c").scope = "root"
    /\ [i \in 1..Len(argv) |-> argv[i].text] = <<"w", "-a">>
    /\ result.options["q"] = Bool(TRUE) /\ result.options["a"] = Absent

\* The scopes from sc out to the root.
RECURSIVE ResolverChain(_)
ResolverChain(sc) == IF sc = "root" THEN {"root"} ELSE {sc} \cup ResolverChain(Parent(sc))

\* The configuration declares two passthru options, or two rest options,
\* somewhere in the chain of the scope.
DeclaresTwo(s, sc, flag) ==
    \E i, j \in 1..Len(DeclaredOptions(s)) :
        /\ i < j
        /\ DeclaredOptions(s)[i].scope \in ResolverChain(sc) /\ DeclaredOptions(s)[j].scope \in ResolverChain(sc)
        /\ IF flag = "passthru" THEN DeclaredOptions(s)[i].passthru /\ DeclaredOptions(s)[j].passthru
           ELSE DeclaredOptions(s)[i].rest /\ DeclaredOptions(s)[j].rest

\* C23: once construction has succeeded, every resolver chain holds at
\* most one passthru option and at most one rest option, and a
\* configuration that declares a second one anywhere in a chain never
\* gets constructed.
C23_OnePassthruAndOneRestPerChain ==
    Constructed =>
        \A sc \in Scopes :
            /\ Cardinality({x \in ResolverChain(sc) : index.passthru[x] # NoOption}) <= 1
            /\ Cardinality({x \in ResolverChain(sc) : index.rest[x] # NoOption}) <= 1
            /\ ~DeclaresTwo(settings, sc, "passthru")
            /\ ~DeclaresTwo(settings, sc, "rest")

\* The names an option answers to: its short name and one-character
\* aliases as written; its long name and longer aliases trimmed, with
\* underscores as hyphens, case folded.
ShortNamesOf(o) == (IF o.shortName # "" THEN {o.shortName} ELSE {}) \cup ShortAliases(o)

LongNamesOf(o) == (IF o.longName # "" THEN {normalizeName(o.longName, TRUE)} ELSE {}) \cup LongAliases(o)

SharesAName(o1, o2) == ShortNamesOf(o1) \cap ShortNamesOf(o2) # {} \/ LongNamesOf(o1) \cap LongNamesOf(o2) # {}

\* C24: once construction has succeeded, no two options registered in the
\* same scope share a short name, a long name or an alias (long names and
\* longer aliases compared after normalisation, one-character aliases
\* compared with short names), and no two options the configuration
\* declares in one scope do: a collision makes construction throw.
C24_NamesAreUniquePerScope ==
    Constructed =>
        /\ \A sc \in Scopes : \A i, j \in 1..Len(index.options[sc]) :
              i < j => ~SharesAName(index.options[sc][i], index.options[sc][j])
        /\ \E declared \in {DeclaredOptions(settings)} : \A i, j \in 1..Len(declared) :
              i < j /\ declared[i].scope = declared[j].scope => ~SharesAName(declared[i], declared[j])

\* C24 witness: aliases that collide with nothing are registered, and an
\* alias written d_c answers to --d_c.
C24_Witness ==
    /\ settings = "aliases" /\ pc = "done"
    /\ fromShortName(index, "root", "k").key = "a" /\ fromLongName(index, "root", "k").key = "c"
    /\ fromLongName(index, "root", "D-C").key = "a" /\ fromShortName(index, "root", "B").key = "b"
    /\ [i \in 1..Len(argv) |-> argv[i].text] = <<"--d_c">>
    /\ result.options["a"] = Bool(TRUE)

\* C24 witness: an alias that normalises to another option's long name, a
\* one-character alias that is another option's short name, and a long
\* name that differs from another only in case and blanks each throw.
C24_ThrowWitness ==
    /\ pc = "threw"
    /\ \/ settings = "dupalias" /\ thrown = "duplicateAlias" /\ step = 2
       \/ settings = "dupshort" /\ thrown = "duplicateAlias" /\ step = 2
       \/ settings = "duplong" /\ thrown = "duplicateLongName" /\ step = 2

\* The synthetic help option answers to -h, --help and -? at the top level.
HelpReachable ==
    /\ fromShortName(index, "root", "h") = HelpOption
    /\ fromLongName(index, "root", "help") = HelpOption
    /\ fromShortName(index, "root", "?") = HelpOption

\* No synthetic help option was registered.
NoSyntheticHelp == HelpOption \notin Registered("root")

\* The configuration declares an option marked help: anywhere, and among
\* the options of the top level.
DeclaresHelp(s) == \E i \in 1..Len(DeclaredOptions(s)) : DeclaredOptions(s)[i].help

DeclaresTopLevelHelp(s) ==
    \E i \in 1..Len(DeclaredOptions(s)) : DeclaredOptions(s)[i].help /\ DeclaredOptions(s)[i].scope = "root"

\* An empty configuration leaves the default group, the passthru option
\* and the rest option undefined and the group list empty.
EmptyDefaults ==
    settings = "empty" =>
        /\ index.defaultGroup["root"] = ""
        /\ getPassthru(index, "root") = NoOption
        /\ getRest(index, "root") = NoOption
        /\ index.groups["root"] = <<>>

\* C25 as stated: a constructed top-level resolver has the synthetic help
\* option when no declared option is marked help and has none when a
\* declared option is marked help; an empty configuration has no default
\* group, passthru or rest and an empty group list.
C25_HelpIsAddedUnlessDeclared ==
    Constructed =>
        /\ IF DeclaresHelp(settings) THEN NoSyntheticHelp ELSE HelpReachable
        /\ EmptyDefaults

\* C25 amended: the help options that count are those of the top level; a
\* help option declared in a command does not keep the synthetic one out.
C25_HelpIsAddedUnlessDeclaredAtTopLevel ==
    Constructed =>
        /\ IF DeclaresTopLevelHelp(settings) THEN NoSyntheticHelp ELSE HelpReachable
        /\ EmptyDefaults

\* C25 witness: the empty configuration answers -? with help.
C25_Witness ==
    /\ settings = "empty" /\ pc = "done"
    /\ HelpReachable /\ index.options["root"] = <<HelpOption>>
    /\ [i \in 1..Len(argv) |-> argv[i].text] = <<"-?">>
    /\ result.help = Bool(TRUE)

\* C25 witness: a help option declared at the top level keeps the synthetic
\* one out, so -h is unrecognized and -u asks for help.
C25_DeclaredWitness ==
    /\ settings = "helpdecl" /\ pc = "done"
    /\ NoSyntheticHelp /\ fromShortName(index, "root", "h") = NoOption
    /\ [i \in 1..Len(argv) |-> argv[i].text] = <<"-u">>
    /\ result.help = Bool(TRUE)

\* C25 witness: a help option declared in a command only; the top level
\* gets the synthetic one.
C25_CommandHelpWitness ==
    /\ settings = "cmdhelp" /\ pc = "ready"
    /\ HelpReachable /\ fromShortName(index, "w", "u").help

\* C25 witness: a top-level option that is not a help option and takes the
\* short name h makes the constructor throw when it adds the synthetic one.
C25_ClashWitness ==
    /\ settings = "helpclash" /\ pc = "threw" /\ thrown = "duplicateShortName"

\* The type the declaration of a registered option calls for: the declared
\* one, else string when the declaration sets passthru, rest, multiple,
\* required or a position, else boolean.
ExpectedType(o) ==
    IF o.declared.type # "" THEN o.declared.type
    ELSE IF o.passthru \/ o.rest \/ o.declared.multiple \/ o.required \/ o.position # NoPosition THEN "string"
    ELSE "boolean"

\* C26: every registered option has its declared type, or, declared
\* without one, the type string when any of passthru, rest, multiple,
\* required or a position is set and the type boolean otherwise.
C26_TypeIsDeclaredOrInferred ==
    \A sc \in Scopes : \A o \in Registered(sc) : o.type = ExpectedType(o)

\* C26 witness: one untyped option for each reason to infer string, one
\* with none, and typed options that keep their type;  --n=e -a  stores a
\* string and a boolean.
C26_Witness ==
    /\ settings = "infer" /\ pc = "done"
    /\ \A k \in {"p", "r", "d", "n", "x"} : get(index, "root", k).declared.type = "" /\ get(index, "root", k).type = "string"
    /\ get(index, "root", "a").declared.type = "" /\ get(index, "root", "a").type = "boolean"
    /\ get(index, "root", "m").type = "number" /\ get(index, "root", "m").required
    /\ get(index, "root", "c").type = "boolean" /\ get(index, "root", "b").type = "string"
    /\ [i \in 1..Len(argv) |-> argv[i].text] = <<"--n=e", "--m=1", "-a">>
    /\ result.options["n"] = Str("e") /\ result.options["a"] = Bool(TRUE)

\* bind and evaluate leave the resolver as the constructor built it.
ResolverIsFramed == pc # "construct" => index' = index

\* A parse of the command line the first parse was given returns what the
\* first parse, made on the fresh resolver, returned.
SameAsOnFreshResolver ==
    pc = "done" /\ parses > 0 /\ commandLine = firstParse.line => result = firstParse.result

\* C27: no step of bind or evaluate changes the resolver (no option's
\* group list, no index), so a parse on a CommandLine that has served
\* other parses returns what the same parse returned on the fresh one.
C27_ParsesLeaveTheResolverAlone == [][ResolverIsFramed]_vars /\ []SameAsOnFreshResolver

\* C27 witness: --gab --gbc narrowed the groups to b on the fresh resolver,
\* another parse was served in between, and --gab --gbc narrows them to b
\* again, the option gab still a member of a and b.
C27_Witness ==
    /\ settings = "groups" /\ pc = "done" /\ parses = 2
    /\ commandLine = <<"--gab", "--gbc">> /\ firstParse.line = commandLine
    /\ groups.list = <<"b">> /\ result.group = "b" /\ firstParse.result.group = "b"
    /\ get(index, "root", "gab").groups = <<"a", "b">>

\* The parse of parseAndExecute has returned and the callbacks are next.
AtExecute == pc = "parsed"

\* The parse was clean: no error, no help request, not handled.
CleanParse == result.error = NoError /\ ~Truthy(result.help) /\ ~handled

\* The exec callbacks among the callbacks that ran.
Execs(calls) == SelectSeq(calls, LAMBDA c : c.callback \notin {"preExec", "postExec"})

\* C28: when the parse result carries an error or a help request, or is
\* already handled, the rest of parseAndExecute invokes no callback:
\* neither preExec, nor an exec, nor postExec.
C28_NoCallbackOnErrorHelpOrHandled ==
    [][AtExecute /\ ~CleanParse => invoked' = <<>>]_vars

\* C28 witness:  z -h  with every callback declared and auto = "print": the
\* help is printed, the result handled, and no callback ran.
C28_Witness ==
    /\ settings = "exec" /\ pc = "returned" /\ auto = "print"
    /\ callbacks.preExec /\ callbacks.exec = "clean" /\ callbacks.command = "clean" /\ callbacks.postExec
    /\ [i \in 1..Len(argv) |-> argv[i].text] = <<"z", "-h">>
    /\ Truthy(result.help) /\ handled /\ output = <<"stdout">>
    /\ invoked = <<>>

\* The exec a clean parse is handed to: that of the matched command when it
\* declares one, else the top-level one; "" when neither is declared.
ExpectedExec ==
    IF result.command # "" /\ ExecOf(result.command) # "" THEN [name |-> result.command, behaviour |-> ExecOf(result.command)]
    ELSE [name |-> "", behaviour |-> callbacks.exec]

\* C29: after a clean parse, parseAndExecute invokes one exec callback,
\* once: the matched command's exec when it declares one, otherwise the
\* top-level exec; the callback gets the result's options and the caller's
\* context, and the result is handled afterwards.  When neither exec is
\* declared no exec is invoked and handled stays false.
C29_CleanParseRunsOneExec ==
    [][AtExecute /\ CleanParse =>
          IF ExpectedExec.behaviour = ""
          THEN Execs(invoked') = <<>> /\ ~handled'
          ELSE /\ Execs(invoked') = <<[callback |-> ExpectedExec.name, options |-> result.options, context |-> context]>>
               /\ handled']_vars

\* The command line is a container and the arguments name no command:
\* _printResult asks for help on its own.
ContainerAlone == revision = "later" /\ container /\ result.command = ""

\* C29, amended: as C29, but when neither exec is declared and the command
\* line is a container that was given no command, help is printed and the
\* result is handled; handled stays false in every other case where neither
\* exec is declared.
C29_CleanParseRunsOneExecUnlessContainer ==
    [][AtExecute /\ CleanParse =>
          IF ExpectedExec.behaviour = ""
          THEN Execs(invoked') = <<>> /\ (handled' <=> ContainerAlone)
          ELSE /\ Execs(invoked') = <<[callback |-> ExpectedExec.name, options |-> result.options, context |-> context]>>
               /\ handled']_vars

\* C29 witness: a container without exec is given  -a  and no command: no
\* exec runs, help is printed and the result is handled.
C29_ContainerWitness ==
    /\ settings = "exec" /\ pc = "returned" /\ container /\ callbacks.exec = "" /\ ~callbacks.preExec
    /\ [i \in 1..Len(argv) |-> argv[i].text] = <<"-a">>
    /\ invoked = <<>> /\ result.help = Bool(TRUE) /\ output = <<"stdout">> /\ handled

\* C29 witness:  w -a  matches the command w, which declares no exec, so
\* the top-level exec runs, once, with the options and the context.
C29_Witness ==
    /\ settings = "exec" /\ pc = "returned" /\ callbacks.exec = "clean" /\ callbacks.command = "clean"
    /\ [i \in 1..Len(argv) |-> argv[i].text] = <<"w", "-a">>
    /\ result.command = "w"
    /\ Execs(invoked) = <<[callback |-> "", options |-> result.options, context |-> context]>>
    /\ result.options["a"] = Bool(TRUE) /\ handled

\* C29 witness: the command z declares an exec and so does the top level;
\* z's runs.
C29_CommandWitness ==
    /\ settings = "exec" /\ pc = "returned" /\ callbacks.exec = "clean" /\ callbacks.command = "clean"
    /\ result.command = "z"
    /\ Execs(invoked) = <<[callback |-> "z", options |-> result.options, context |-> context]>>
    /\ handled

\* C29 witness: no exec is declared; nothing runs and handled stays false.
C29_UnhandledWitness ==
    /\ settings = "exec" /\ pc = "returned" /\ callbacks.exec = "" /\ callbacks.command = ""
    /\ result.command = "z" /\ Execs(invoked) = <<>> /\ ~handled

\* What a callback that sets help, or an error, makes parseAndExecute
\* write.
WrittenFor(behaviour) == IF behaviour = "help" THEN <<"stdout">> ELSE <<"stderr">>

\* C30: when the exec callback a clean parse is handed to sets help or an
\* error, parseAndExecute with auto = "print" writes the help to stdout
\* (the error to stderr), marks the result handled and does not call
\* process.exit; with auto = true it does the same and then calls
\* process.exit once, with the status the callback set.
C30_CallbackHelpOrErrorIsPrinted ==
    [][AtExecute /\ CleanParse /\ ExpectedExec.behaviour \in {"help", "error"} /\ auto \in {"print", "true"} =>
          /\ output' = WrittenFor(ExpectedExec.behaviour)
          /\ handled'
          /\ IF auto = "print" THEN exits' = <<>> /\ pc' = "returned"
             ELSE exits' = <<CallbackStatus>> /\ pc' = "exited"]_vars

\* C30 witness: z's exec sets help under auto = "print"; the help goes to
\* stdout, the result is handled, the process lives.
C30_Witness ==
    /\ settings = "exec" /\ pc = "returned" /\ auto = "print" /\ callbacks.command = "help"
    /\ result.command = "z" /\ Len(invoked) = 1
    /\ result.help = Bool(TRUE) /\ output = <<"stdout">> /\ handled /\ exits = <<>>

\* C30 witness: z's exec sets an error under auto = true; the error goes
\* to stderr and the process exits with the callback's status.
C30_ExitWitness ==
    /\ settings = "exec" /\ pc = "exited" /\ auto = "true" /\ callbacks.command = "error"
    /\ result.command = "z" /\ Len(invoked) = 1
    /\ result.error = CallbackError /\ output = <<"stderr">> /\ handled /\ exits = <<CallbackStatus>>

\* The place on the command line of the token a bound argument was made
\* from (the ambiguous-parameter entry holds no token: its error names it).
TokenOf(b) == IF b.parsed.id # 0 THEN b.parsed.id ELSE b.error.about

\* C31, as stated: the bound arguments of bind's result stand in the order
\* of their tokens on the command line.
C31_BoundArgumentsInCommandLineOrder ==
    pc = "done" => \A i, j \in 1..Len(boundArguments) : i < j => TokenOf(boundArguments[i]) < TokenOf(boundArguments[j])

\* The phase of bind that made a bound argument: 1 for a named token, 2
\* for a bare token bound by position, 3 for a leftover token.
PhaseOf(b) ==
    IF b.parsed.parameter.present THEN 1
    ELSE IF b.parsed.id # 0 /\ (b.option = NoOption \/ b.option.rest) THEN 3
    ELSE 2

\* C31, amended: the arguments bound by name come first, then those bound
\* by position, then the leftover ones; within each of the three the order
\* is that of the tokens on the command line.
C31_BoundArgumentsInPhaseThenCommandLineOrder ==
    \A i, j \in 1..Len(boundArguments) : i < j =>
        \E bi \in {boundArguments[i]} : \E bj \in {boundArguments[j]} :
           /\ PhaseOf(bi) <= PhaseOf(bj)
           /\ PhaseOf(bi) = PhaseOf(bj) => TokenOf(bi) < TokenOf(bj)

\* C31 witness:  e --c --b  binds --c, then --b, then e at position 0.
C31_Witness ==
    /\ settings = "basic" /\ pc = "done"
    /\ [i \in 1..Len(argv) |-> argv[i].text] = <<"e", "--c", "--b">>
    /\ [i \in 1..Len(boundArguments) |-> TokenOf(boundArguments[i])] = <<2, 3, 1>>
    /\ boundArguments[3].option.key = "x"

\* The scope that is current when the token at place k is read: the
\* command of the last recognized command name before it, the root when
\* there is none.  (The chain holds the innermost entry first.)
ScopeAt(k) ==
    LET entered == {e \in 1..Len(boundCommand) : boundCommand[e].command # "" /\ boundCommand[e].parsed.id < k}
    IN  IF entered = {} THEN "root"
        ELSE boundCommand[CHOOSE e \in entered : \A f \in entered : e <= f].command

\* The option a named parameter stands for in a scope, read off the
\* options registered in the tree: the scope's own, else the nearest
\* ancestor's, else none.
DeclaredFor(scope, parameter) ==
    IF parameter.passthru THEN NoOption
    ELSE IF parameter.shortName # ""
    THEN LET h == Nearest(scope, {x \in Scopes : OwnByShortName(x, parameter.shortName) # {}})
         IN  IF h = "" THEN NoOption ELSE TheOne(OwnByShortName(h, parameter.shortName))
    ELSE LET h == Nearest(scope, {x \in Scopes : OwnByLongName(x, parameter.longName) # {}})
         IN  IF h = "" THEN NoOption ELSE TheOne(OwnByLongName(h, parameter.longName))

\* C32: a named token is resolved against the scope that is current when
\* it is read, with fall-back to that scope's ancestors: a token before a
\* command name never gets an option declared only in the command (it is
\* unrecognized), a token after it gets the command's option or, failing
\* that, the general one.
C32_NamedTokensResolveInTheCurrentScope ==
    \A i \in 1..Len(boundArguments) :
        \E b \in {boundArguments[i]} :
           b.parsed.parameter.present /\ ~b.parsed.parameter.passthru =>
              \E declared \in {DeclaredFor(ScopeAt(b.parsed.id), b.parsed.parameter)} :
                 /\ b.option = declared
                 /\ declared = NoOption <=> b.error.kind = "unrecognized"

\* C32 witness:  -q w -a : -q, declared only in the command w, is
\* unrecognized before w; -a, a general option, is recognized after it.
C32_Witness ==
    /\ settings = "commands" /\ pc = "done"
    /\ [i \in 1..Len(argv) |-> argv[i].text] = <<"-q", "w", "-a">>
    /\ Len(boundArguments) = 2
    /\ boundArguments[1].option = NoOption /\ boundArguments[1].error.kind = "unrecognized"
    /\ boundArguments[2].option.key = "a" /\ boundArguments[2].option.scope = "root"
    /\ boundArguments[2].error = NoError

\* C32 witness:  w -q : after the command name, the command's own option.
C32_CommandOptionWitness ==
    /\ settings = "commands" /\ pc = "done"
    /\ [i \in 1..Len(argv) |-> argv[i].text] = <<"w", "-q">>
    /\ Len(boundArguments) = 1
    /\ boundArguments[1].option.key = "q" /\ boundArguments[1].option.scope = "w"
    /\ boundArguments[1].error = NoError

\* The positions of the options bound by name.
NamedPositions ==
    {boundArguments[i].option.position : i \in {k \in 1..Len(boundArguments) : PhaseOf(boundArguments[k]) = 1 /\ boundArguments[k].option # NoOption}} \ {NoPosition}

\* The m-th position, counting from p, that no option bound by name holds.
RECURSIVE NthPosition(_, _, _)
NthPosition(m, p, taken) ==
    IF p \in taken THEN NthPosition(m, p + 1, taken)
    ELSE IF m = 1 THEN p ELSE NthPosition(m - 1, p + 1, taken)

\* The place of a token among the bare tokens bindNamedArguments left.
BareRank(id) == Cardinality({k \in 1..Len(unboundArguments) : unboundArguments[k].id <= id})

\* The bound arguments made from bare tokens bound by position.
ByPosition == {i \in 1..Len(boundArguments) : PhaseOf(boundArguments[i]) = 2 /\ boundArguments[i].parsed.id # 0}

\* C33: the m-th bare token gets the m-th position, counted from 0, that
\* no option bound by name holds; so no bare token is bound to an option
\* that was bound by name, and no two bare tokens are bound to the same
\* position.
C33_BareTokensTakeTheFreePositionsInOrder ==
    pc \notin {"construct", "ready", "threw", "named"} =>
        /\ \A i \in ByPosition :
              boundArguments[i].option.position = NthPosition(BareRank(boundArguments[i].parsed.id), 0, NamedPositions)
        /\ \A i \in ByPosition : \A j \in 1..Len(boundArguments) :
              PhaseOf(boundArguments[j]) = 1 => boundArguments[j].option # boundArguments[i].option
        /\ \A i, j \in ByPosition :
              i # j => boundArguments[i].option.position # boundArguments[j].option.position

\* C33 witness:  --x=e f e : x, at position 0, is bound by name; f takes
\* position 1, where no option stands, and e is bound to y at position 2.
C33_Witness ==
    /\ settings = "positions" /\ pc = "done"
    /\ [i \in 1..Len(argv) |-> argv[i].text] = <<"--x=e", "f", "e">>
    /\ Len(boundArguments) = 3
    /\ boundArguments[1].option.key = "x" /\ boundArguments[1].parsed.parameter.present
    /\ boundArguments[2].option.key = "y" /\ boundArguments[2].parsed.text = "e"
    /\ boundArguments[3].error.kind = "unrecognized" /\ boundArguments[3].parsed.text = "f"

\* The options that stand at the position the next bare token gets.
Candidates == fromPosition(index, resolver, SkipUsed(position, usedPositions))

\* bindPositionalArguments is about to try several candidates for the
\* next bare token.
AtTrial ==
    /\ pc = "positional" /\ parsedArguments # <<>>
    /\ ~(restOption # NoOption /\ restOption.position # NoPosition /\ restOption.position <= SkipUsed(position, usedPositions))
    /\ Len(Candidates) > 1

\* The committed groups narrowed to those a candidate belongs to.
NarrowedFor(option) ==
    IF Len(option.groups) = 0 THEN [defined |-> groups.defined, list |-> groups.list]
    ELSE IF ~groups.defined THEN [defined |-> TRUE, list |-> option.groups]
    ELSE [defined |-> TRUE, list |-> SelectSeq(groups.list, LAMBDA x : x \in Range(option.groups))]

\* The candidates that take the token without error: the value binds and
\* the narrowed set is not empty.
Surviving ==
    {c \in 1..Len(Candidates) :
        /\ bindArgument(Head(parsedArguments), Candidates[c], <<>>, FALSE, usedPositions).bound.error = NoError
        /\ NarrowedFor(Candidates[c]).defined => NarrowedFor(Candidates[c]).list # <<>>}

\* A configuration that declares two candidates with disjoint groups for
\* one position gets a resolver in which both can be tried.
CandidatesCanBeTried ==
    \A p \in Declared : \A q \in Declared : DisjointCandidates(p, q) => pc # "threw"

Considered(o, group) ==
    \/ Len(o.groups) = 0
    \/ group = "*"
    \/ group # "" /\ group \in Range(o.groups)

\* The groups a lookup may name in the configurations of GroupSettings.
LookupGroups == {"", "*", "a", "b"}

\* C35: the options the resolver returns for a group are the declared
\* options that have no groups, or list the group, or all of them for "*",
\* and only those without groups for the undefined group; and so the step
\* of evaluate that fills defaults and checks required options fills the
\* default of every considered option that has no value, reports a
\* considered required option that has none, and neither gives a value to
\* nor reports an option restricted to other groups.
C35_OptionsConsideredForTheGroup ==
    [][AfterArguments =>
         /\ \A g \in LookupGroups :
               \A o \in Declared : (o \in Range(getOptions(index, resolver, g))) <=> Considered(o, g)
         /\ \A o \in Declared :
               IF Considered(o, result'.group)
               THEN result.error = NoError /\ result.options[o.key] = Absent =>
                       /\ o.hasDefaultValue => result'.options[o.key] = o.defaultValue
                       /\ o.required => result'.error.kind = "required"
               ELSE /\ result'.options[o.key] = result.options[o.key]
                    /\ result'.error # RequiredError(o)]_vars

\* C35: group b is selected; the default of da (group a) is not filled,
\* the default of the group-less dn is, and rb (group b) is reported.
C35_Witness ==
    /\ pc = "done"
    /\ settings = "grouped"
    /\ result.group = "b"
    /\ result.options["da"] = Absent
    /\ result.options["dn"] = Str("f")
    /\ result.error = RequiredError(CHOOSE o \in Declared : o.key = "rb")

\* C35: no group is selected; only the group-less default is filled and rb
\* is not required.
C35_UndefinedWitness ==
    /\ pc = "done"
    /\ settings = "grouped"
    /\ result.group = ""
    /\ result.options["da"] = Absent
    /\ result.options["dn"] = Str("f")
    /\ result.error = NoError

\* C35: the group is "*"; every default is filled and rb is required.
C35_AnyWitness ==
    /\ pc = "done"
    /\ settings = "anygroup"
    /\ result.group = "*"
    /\ result.options["da"] = Str("e")
    /\ result.options["dn"] = Str("f")
    /\ result.error.kind = "required"

\* C35: group a is selected; da is filled and rb (group b) is not required.
C35_GroupWitness ==
    /\ pc = "done"
    /\ result.group = "a"
    /\ result.options["da"] = Str("e")
    /\ result.error = NoError

(***************************************************************************)
(* C36: response files.                                                    *)
(***************************************************************************)
\* The raw arguments with each response-file argument replaced, where it
\* stands, by the lines of its file in file order.  An argument that
\* follows the separator, or that an option with an empty inline value
\* takes as its value, is not a response-file argument.
RECURSIVE ExpandInPlace(_)
ExpandInPlace(rawArgs) ==
    IF rawArgs = <<>> THEN <<>>
    ELSE LET a == Head(rawArgs)
             rest == Tail(rawArgs)
         IN  IF a = "--" THEN rawArgs
             ELSE IF a \in DOMAIN optionPattern /\ optionPattern[a].hasValue /\ optionPattern[a].value = "" /\ rest # <<>>
             THEN <<a, Head(rest)>> \o ExpandInPlace(Tail(rest))
             ELSE IF a \in DOMAIN responseFilePattern
             THEN ResponseFile(responseFilePattern[a]) \o ExpandInPlace(rest)
             ELSE <<a>> \o ExpandInPlace(rest)

\* C36: the tokens of a command line are the tokens of the command line in
\* which each response-file argument is replaced in place by the lines of
\* its file, in file order: after the arguments before it, before the
\* arguments after it.
C36_ResponseFileIsExpandedInPlace ==
    pc \notin {"construct", "ready", "threw"} /\ RawArgsOf(settings) # {}
    => argv = WithIds(parse(ExpandInPlace(commandLine)))

(***************************************************************************)
(* C37: bind accounts for every token once.                                *)
(***************************************************************************)
\* The bound arguments made of the token with the given id.
ArgumentsOf(id) == {k \in Bound : boundArguments[k].parsed.id = id}

\* The entries of the bound command chain made of the token.
CommandsOfToken(id) == {k \in 1..Len(boundCommand) : boundCommand[k].parsed.id = id}

\* The token is the look-ahead value of the named token right before it: a
\* bare token after a named token without an inline value that resolved to
\* a string or number option.
IsLookAhead(id) == id > 1 /\ AwaitsValue(id - 1) /\ ~argv[id].parameter.present

\* bind has returned.
BindDone == pc \in {"evaluate", "done"}

\* C37: when bind has returned, every token of the command line is the
\* token of exactly one bound argument, or of exactly one entry of the
\* command chain, or the look-ahead value of the named token right before
\* it, and only one of the three.
C37_EveryTokenIsAccountedForOnce ==
    BindDone =>
    \A id \in 1..Len(argv) :
        Cardinality(ArgumentsOf(id)) + Cardinality(CommandsOfToken(id)) + (IF IsLookAhead(id) THEN 1 ELSE 0) = 1

\* C37: a command line whose three tokens are a command, a named token and
\* its look-ahead value.
C37_Witness ==
    /\ pc = "done"
    /\ Len(argv) = 3
    /\ Cardinality(CommandsOfToken(1)) = 1
    /\ Cardinality(ArgumentsOf(2)) = 1
    /\ IsLookAhead(3) /\ ArgumentsOf(3) = {}

(***************************************************************************)
(* C38: bind terminates.                                                   *)
(***************************************************************************)
\* bind is running.
InBind == pc \in {"named", "positional", "free"}

\* C38: bind, once started on a command line, comes to an end, also in a
\* configuration whose options or commands are aliases (aliasFor) whose
\* expansion goes back into the token stream.
C38_BindTerminates == InBind ~> ~InBind

(***************************************************************************)
(* C39: a help request and a missing required option.                      *)
(***************************************************************************)
\* Help was asked for, no token carries an error, and a required option
\* visible in the selected group has no value.
HelpWithMissingRequired ==
    /\ pc = "done"
    /\ \E h \in Bound : AsksForHelp(h)
    /\ Failures = {} /\ ~CommandFailed
    /\ FirstMissing # NoOption

C39_LaterWitness ==
    /\ HelpWithMissingRequired
    /\ revision = "later"
    /\ settings = "required"
    /\ Len(argv) = 1
    /\ RequiredReported


=============================================================================
